---- MODULE Spec2Model ----
(***************************************************************************)
(* MOD-FONT: the direct-manipulation canvas core.                          *)
(*                                                                         *)
(* The model covers the glyph data store with its per-glyph undo/redo      *)
(* history and its buffer of pending shape updates (hooks/useFontEditor),  *)
(* the pointer state machine of the canvas (components/EditorCanvas), the  *)
(* shape transforms (hooks/useShapeTransform) and the clipboard handlers   *)
(* of App.                                                                 *)
(*                                                                         *)
(* One action is one event handler run to completion, followed by the      *)
(* re-render and the effects it triggers: the handler reads the rendered   *)
(* state (the unprimed variables), mutable refs are threaded through the   *)
(* handler in a record, and queued state updaters are applied in order.    *)
(*                                                                         *)
(* Numbers are binary floating point, written <<numerator, denominator>>   *)
(* in lowest terms with a power of two as denominator; every arithmetic    *)
(* operation rounds its result to the nearest number with MantissaBits     *)
(* significant bits, ties to even.  Grid coordinates and their halves are  *)
(* exact; a mean of three centres is not.                                  *)
(***************************************************************************)
EXTENDS Integers, Sequences, FiniteSets, TLC

\* pixels per grid cell
CELL_SIZE == 32

\* capacity of a glyph's past stack
HistoryCap == 50

\* bounds of the exploration: handler runs per behaviour, shapes per glyph
MaxSteps == 3
MaxUndoSteps == 4
MaxPointerSteps == 4
MaxFlipSteps == 3
MaxHistorySteps == 52
MaxRotateSteps == 4
MaxAlignSteps == 2
MaxGestureSteps == 4
MaxStoreSteps == 3
MaxPasteSteps == 3
MaxThrottleSteps == 6
MaxClickSteps == 4
MaxHeldSteps == 4
MaxFrameSteps == 3

\* half cells along each axis that the hit-test points are drawn from
MaxHalfCells == 7
MaxShapes == 4

\* significant bits a number keeps; a JavaScript number keeps 53 and rounds
\* in the same way
MantissaBits == 14

-----------------------------------------------------------------------------
(* Numbers *)

Abs(n) == IF n < 0 THEN -n ELSE n

RECURSIVE GCD(_, _)
GCD(a, b) == IF b = 0 THEN a ELSE GCD(b, a % b)

Norm(n, d) == LET g == GCD(Abs(n), d) IN <<n \div g, d \div g>>

Q(n) == <<n, 1>>

\* the exponent of a power of two
RECURSIVE Log2(_)
Log2(d) == IF d <= 1 THEN 0 ELSE 1 + Log2(d \div 2)

\* the odd part of a positive integer
RECURSIVE OddPart(_)
OddPart(k) == IF k % 2 = 0 THEN OddPart(k \div 2) ELSE k

\* the least s >= 0 with a < limit * 2^s
RECURSIVE BitsOver(_, _)
BitsOver(a, limit) == IF a < limit THEN 0 ELSE 1 + BitsOver(a \div 2, limit)

\* the least u >= 0 with a * 2^u >= limit (a > 0)
RECURSIVE BitsUnder(_, _)
BitsUnder(a, limit) == IF a >= limit THEN 0 ELSE 1 + BitsUnder(2 * a, limit)

\* The number nearest to (n / k) / 2^j that has MantissaBits significant
\* bits, ties to the even one (k odd and positive): the result of one
\* arithmetic operation.
Fl(n, k, j) ==
    LET scale(m, e) == IF e >= 0 THEN <<m * 2^e, 1>> ELSE Norm(m, 2^(-e))
        nearest(q, r, d) ==
            IF 2 * r > d \/ (2 * r = d /\ q % 2 = 1) THEN q + 1 ELSE q
        quotient(num, den, e) ==
            scale((IF n < 0 THEN -1 ELSE 1) * nearest(num \div den, num % den, den), e)
        \* s bits too many are dropped, or u bits too few are made up
        shifted(a, s, u) == quotient(a * 2^u, k * 2^s, s - u - j)
    IN IF n = 0 THEN Q(0)
       ELSE IF k = 1 /\ Abs(n) < 2^MantissaBits THEN scale(n, -j)
       ELSE shifted(Abs(n), BitsOver(Abs(n), k * 2^MantissaBits),
                    BitsUnder(Abs(n), k * 2^(MantissaBits - 1)))

Add(a, b) ==
    LET d == IF a[2] > b[2] THEN a[2] ELSE b[2]
    IN Fl(a[1] * (d \div a[2]) + b[1] * (d \div b[2]), 1, Log2(d))
Sub(a, b) == Add(a, <<-b[1], b[2]>>)
Mul(a, b) == Fl(a[1] * b[1], 1, Log2(a[2]) + Log2(b[2]))
DivBy(a, k) == Fl(a[1], OddPart(k), Log2(a[2]) + Log2(k \div OddPart(k)))

Lt(a, b) == a[1] * b[2] < b[1] * a[2]
Le(a, b) == a[1] * b[2] <= b[1] * a[2]
Min(a, b) == IF Lt(b, a) THEN b ELSE a
Max(a, b) == IF Lt(a, b) THEN b ELSE a
AbsQ(a) == <<Abs(a[1]), a[2]>>

\* Math.round: the nearest integer, halves towards +infinity
Round(a) == (2 * a[1] + a[2]) \div (2 * a[2])

IsMultipleOf(a, k) == a[2] = 1 /\ a[1] % k = 0

snapToGrid(value) == Q(Round(DivBy(value, CELL_SIZE)) * CELL_SIZE)

clamp(value, min, max) == Max(min, Min(max, value))

-----------------------------------------------------------------------------
(* Data model *)

Glyphs == {"A", "B"}

SQUARE == "square"
CIRCLE == "circle"
TRIANGLE == "triangle"
QUARTER_CIRCLE == "quarter-circle"
ShapeType == {SQUARE, CIRCLE, TRIANGLE, QUARTER_CIRCLE}

ArcCorner == {"tl", "tr", "bl", "br"}
NoCorner == "null"

AlignmentType == {"left", "right", "top", "bottom", "center-h", "center-v"}

Tool == {"draw", "select"}

\* optional values: null is the empty sequence
None == <<>>
Some(v) == <<v>>

EmptyMap == [i \in {} |-> 0]

createShape(id, type, x, y, width, height) ==
    [id |-> id, type |-> type, x |-> x, y |-> y, width |-> width,
     height |-> height, rotation |-> 0, corner |-> NoCorner]

\* { ...shape, ...update }
MergeShape(shape, update) ==
    [f \in DOMAIN shape |-> IF f \in DOMAIN update THEN update[f] ELSE shape[f]]

\* { ...existing, ...updates }
MergeUpdate(existing, updates) ==
    [f \in DOMAIN existing \cup DOMAIN updates |->
        IF f \in DOMAIN updates THEN updates[f] ELSE existing[f]]

ShapeIds(shapeSeq) == {shapeSeq[i].id : i \in 1..Len(shapeSeq)}

\* shapes.find(s => s.id === id), for an id that is present
FindShape(shapeSeq, id) ==
    shapeSeq[CHOOSE i \in 1..Len(shapeSeq) :
                 /\ shapeSeq[i].id = id
                 /\ \A j \in 1..(i - 1) : shapeSeq[j].id # id]

\* shapes.filter(s => ids.includes(s.id))
RECURSIVE FilterShapes(_, _)
FilterShapes(shapeSeq, ids) ==
    IF shapeSeq = <<>> THEN <<>>
    ELSE IF Head(shapeSeq).id \in ids
         THEN <<Head(shapeSeq)>> \o FilterShapes(Tail(shapeSeq), ids)
         ELSE FilterShapes(Tail(shapeSeq), ids)

SeqToSet(s) == {s[i] : i \in 1..Len(s)}

canvasSizeOf(glyph) == Q(glyph.gridSize * CELL_SIZE)

-----------------------------------------------------------------------------
(* State *)

VARIABLES
    font,                 \* font.glyphs: glyph key -> [char, gridSize, shapes]
    currentGlyph,         \* key of the active glyph
    history,              \* glyph key -> [past, future], stacks of shape arrays
    pendingShapeUpdates,  \* pendingShapeUpdatesRef: glyph key -> (shape id -> update)
    pendingFrame,         \* pendingFrameRef.current !== null
    selectedShapeIds,     \* App: sequence of selected shape ids
    clipboardShapes,      \* App: copied shapes (<<>> when null)
    clipboardSourceGlyph, \* App: glyph the clipboard was filled from, or "null"
    tool,                 \* App: active tool
    selectedShapeType,    \* App: shape type of the draw tool
    isDragging, isResizing, isSelecting,
    dragStart,            \* pointer position at pointer-down, or None
    shapeStartPositions,  \* shape id -> position at pointer-down
    resizeStartShape,     \* shape at pointer-down on a handle, or None
    resizeHandle,         \* active handle, or "null"
    drawStart,            \* snapped start point of the draw tool, or None
    previewBox,           \* box being drawn, or None
    selectionBox,         \* marquee rectangle, or None
    nextId,               \* ids handed out so far (ids are fresh)
    stepsLeft,            \* handler runs the exploration still allows
    op,                   \* the handler that ran last
    pointer,              \* position delivered with the last pointer event
    gestureStart,         \* the shapes at the last pointer-down
    expected,             \* the shapes an undo or a redo run now has to restore
    call                  \* what the behaviour was given, and what a function returned

storeVars == <<font, currentGlyph, history, pendingShapeUpdates, pendingFrame>>
appVars == <<selectedShapeIds, clipboardShapes, clipboardSourceGlyph, tool, selectedShapeType>>
canvasVars == <<isDragging, isResizing, isSelecting, dragStart, shapeStartPositions,
                resizeStartShape, resizeHandle, drawStart, previewBox, selectionBox>>
auxVars == <<nextId, stepsLeft, op, pointer, gestureStart, expected, call>>
vars == <<storeVars, appVars, canvasVars, auxVars>>

-----------------------------------------------------------------------------
(* useFontEditor: the data store.  An operator takes the live store w      *)
(* (queued font and history state, the two refs) and returns it as the     *)
(* call leaves it; font, history and currentGlyph without w are the values *)
(* captured by the callback at the last render.                            *)

Store == [font |-> font, history |-> history,
          pending |-> pendingShapeUpdates, frame |-> pendingFrame]

getGlyphSnapshot(glyphKey, glyph, pending) ==
    LET pendingUpdates == pending[glyphKey] IN
    [i \in 1..Len(glyph.shapes) |->
        IF glyph.shapes[i].id \in DOMAIN pendingUpdates
        THEN MergeShape(glyph.shapes[i], pendingUpdates[glyph.shapes[i].id])
        ELSE glyph.shapes[i]]

\* a merge keyed by the shape id alone: an update lands on the shape with that
\* id in whichever glyph holds it
applyPendingShapeUpdates_AnyGlyph(w) ==
    [w EXCEPT
        !.font = [g \in Glyphs |->
                    [w.font[g] EXCEPT !.shapes =
                        [i \in 1..Len(w.font[g].shapes) |->
                            IF \E k \in Glyphs : w.font[g].shapes[i].id \in DOMAIN w.pending[k]
                            THEN LET k == CHOOSE k \in Glyphs :
                                              w.font[g].shapes[i].id \in DOMAIN w.pending[k]
                                 IN MergeShape(w.font[g].shapes[i],
                                               w.pending[k][w.font[g].shapes[i].id])
                            ELSE w.font[g].shapes[i]]]],
        !.pending = [g \in Glyphs |-> EmptyMap]]

applyPendingShapeUpdates(w) ==
    [w EXCEPT
        !.font = [g \in Glyphs |->
                    [w.font[g] EXCEPT !.shapes =
                        [i \in 1..Len(w.font[g].shapes) |->
                            IF w.font[g].shapes[i].id \in DOMAIN w.pending[g]
                            THEN MergeShape(w.font[g].shapes[i],
                                            w.pending[g][w.font[g].shapes[i].id])
                            ELSE w.font[g].shapes[i]]]],
        !.pending = [g \in Glyphs |-> EmptyMap]]

\* a scheduler that asks for no frame
schedulePendingUpdate_NoFrame(w) == w

schedulePendingUpdate(w) == [w EXCEPT !.frame = TRUE]

cancelScheduledFrame(w) == [w EXCEPT !.frame = FALSE]

removePendingUpdateForShape(w, glyphKey, shapeId) ==
    [w EXCEPT !.pending[glyphKey] =
        [i \in DOMAIN @ \ {shapeId} |-> @[i]]]

clearPendingUpdatesForGlyph(w, glyphKey) ==
    [w EXCEPT !.pending[glyphKey] = EmptyMap]

\* a trim at the wrong end: the newest snapshot is dropped
TrimPast_DropNewest(newPast) ==
    IF Len(newPast) > HistoryCap THEN SubSeq(newPast, 1, HistoryCap) ELSE newPast

\* newPast.shift() once the stack is longer than the cap
TrimPast(newPast) ==
    IF Len(newPast) > HistoryCap THEN Tail(newPast) ELSE newPast

\* a history object rebuilt with the entry of the current glyph only
saveToHistory_OwnEntryOnly(w) ==
    schedulePendingUpdate(
        [w EXCEPT !.history =
            [g \in Glyphs |->
                IF g = currentGlyph
                THEN [past |-> TrimPast(Append(w.history[g].past,
                                   getGlyphSnapshot(g, font[g], w.pending))),
                      future |-> <<>>]
                ELSE [past |-> <<>>, future |-> <<>>]]])

saveToHistory(w) ==
    LET glyph == font[currentGlyph]
        snapshot == getGlyphSnapshot(currentGlyph, glyph, w.pending)
        hist == w.history[currentGlyph]
        newPast == Append(hist.past, snapshot)
    IN schedulePendingUpdate(
           [w EXCEPT !.history[currentGlyph] =
               [past |-> TrimPast(newPast), future |-> <<>>]])

addShape(w, shape) ==
    LET w1 == applyPendingShapeUpdates(cancelScheduledFrame(w)) IN
    [w1 EXCEPT !.font[currentGlyph].shapes = Append(@, shape)]

updateShape(w, shapeId, updates) ==
    IF DOMAIN updates = {} THEN w
    ELSE LET glyphUpdates == w.pending[currentGlyph] IN
         schedulePendingUpdate(
             [w EXCEPT !.pending[currentGlyph] =
                 [i \in DOMAIN glyphUpdates \cup {shapeId} |->
                     IF i # shapeId THEN glyphUpdates[i]
                     ELSE IF shapeId \in DOMAIN glyphUpdates
                          THEN MergeUpdate(glyphUpdates[shapeId], updates)
                          ELSE updates]])

deleteShape(w, shapeId) ==
    LET w1 == removePendingUpdateForShape(saveToHistory(w), currentGlyph, shapeId) IN
    [w1 EXCEPT !.font[currentGlyph].shapes =
        SelectSeq(@, LAMBDA s : s.id # shapeId)]

duplicateShape(w, shapeId, newId) ==
    LET glyph == font[currentGlyph]
        snapshot == getGlyphSnapshot(currentGlyph, glyph, w.pending)
    IN
    IF shapeId \notin ShapeIds(snapshot) THEN w
    ELSE LET shape == FindShape(snapshot, shapeId)
             cellSize == CELL_SIZE
             newShape == [shape EXCEPT !.id = newId,
                                       !.x = Add(shape.x, Q(cellSize)),
                                       !.y = Add(shape.y, Q(cellSize))]
             w1 == saveToHistory(w)
         IN [w1 EXCEPT !.font[currentGlyph].shapes = Append(@, newShape)]

clearGlyph(w) ==
    LET w1 == clearPendingUpdatesForGlyph(
                  cancelScheduledFrame(saveToHistory(w)), currentGlyph) IN
    [w1 EXCEPT !.font[currentGlyph].shapes = <<>>]

\* an undo that cancels the frame and leaves the pending updates in the map
undo_PendingKept(w) ==
    LET hist == history[currentGlyph] IN
    IF Len(hist.past) = 0 THEN w
    ELSE LET w1 == cancelScheduledFrame(w)
             newFuture == <<getGlyphSnapshot(currentGlyph, font[currentGlyph], w1.pending)>>
                              \o hist.future
         IN [w1 EXCEPT !.font[currentGlyph].shapes = hist.past[Len(hist.past)],
                       !.history[currentGlyph] =
                           [past |-> SubSeq(hist.past, 1, Len(hist.past) - 1),
                            future |-> newFuture]]

undo(w) ==
    LET hist == history[currentGlyph] IN
    IF Len(hist.past) = 0 THEN w
    ELSE LET w1 == clearPendingUpdatesForGlyph(cancelScheduledFrame(w), currentGlyph)
             glyph == font[currentGlyph]
             previous == hist.past[Len(hist.past)]
             newPast == SubSeq(hist.past, 1, Len(hist.past) - 1)
             newFuture == <<getGlyphSnapshot(currentGlyph, glyph, w1.pending)>>
                              \o hist.future
         IN [w1 EXCEPT !.font[currentGlyph].shapes = previous,
                       !.history[currentGlyph] =
                           [past |-> newPast, future |-> newFuture]]

redo(w) ==
    LET hist == history[currentGlyph] IN
    IF Len(hist.future) = 0 THEN w
    ELSE LET w1 == clearPendingUpdatesForGlyph(cancelScheduledFrame(w), currentGlyph)
             glyph == font[currentGlyph]
             next == hist.future[1]
             newPast == Append(hist.past,
                               getGlyphSnapshot(currentGlyph, glyph, w1.pending))
             newFuture == Tail(hist.future)
         IN [w1 EXCEPT !.font[currentGlyph].shapes = next,
                       !.history[currentGlyph] =
                           [past |-> newPast, future |-> newFuture]]

\* an update of the glyph that discards the pending updates instead of
\* writing them
updateGlyph_PendingDropped(w, prop, value) ==
    LET w1 == clearPendingUpdatesForGlyph(cancelScheduledFrame(w), currentGlyph) IN
    [w1 EXCEPT !.font[currentGlyph] = [@ EXCEPT ![prop] = value]]

\* { ...glyph, [prop]: value } after the pending updates are written
updateGlyph(w, prop, value) ==
    LET w1 == applyPendingShapeUpdates(cancelScheduledFrame(w)) IN
    [w1 EXCEPT !.font[currentGlyph] = [@ EXCEPT ![prop] = value]]

\* a switch that cancels the frame and forgets the updates it was to write
setCurrentGlyph_KeepPending(w) == cancelScheduledFrame(w)

setCurrentGlyph(w) == applyPendingShapeUpdates(cancelScheduledFrame(w))

\* Not in hooks/useFontEditor as shipped; App calls them.  Modelled after
\* addShape and deleteShape: one store write for the whole batch.
addShapes(w, shapeSeq) ==
    LET w1 == applyPendingShapeUpdates(cancelScheduledFrame(w)) IN
    [w1 EXCEPT !.font[currentGlyph].shapes = @ \o shapeSeq]

deleteShapes(w, ids) ==
    LET w1 == saveToHistory(w) IN
    [w1 EXCEPT !.pending[currentGlyph] =
                   [i \in DOMAIN @ \ SeqToSet(ids) |-> @[i]],
               !.font[currentGlyph].shapes =
                   SelectSeq(@, LAMBDA s : s.id \notin SeqToSet(ids))]

-----------------------------------------------------------------------------
(* useShapeTransform *)

\* the flip as it was before BUG_FIXES.md: the shape is mirrored across the canvas
flipHorizontal_Mirrored(w, shape, canvasSize) ==
    updateShape(saveToHistory(w), shape.id,
                [x |-> Sub(Sub(canvasSize, shape.x), shape.width)])

flipHorizontal(w, shape, canvasSize) ==
    LET cornerMap == [c \in ArcCorner |->
                        CASE c = "tl" -> "tr" [] c = "tr" -> "tl"
                          [] c = "bl" -> "br" [] c = "br" -> "bl"]
        updates ==
            IF shape.type = TRIANGLE
            THEN [rotation |-> (360 - shape.rotation) % 360]
            ELSE IF shape.type = QUARTER_CIRCLE
            THEN [corner |-> cornerMap[IF shape.corner = NoCorner
                                       THEN "tl" ELSE shape.corner]]
            ELSE EmptyMap
    IN updateShape(saveToHistory(w), shape.id, updates)

flipVertical(w, shape, canvasSize) ==
    LET cornerMap == [c \in ArcCorner |->
                        CASE c = "tl" -> "bl" [] c = "tr" -> "br"
                          [] c = "bl" -> "tl" [] c = "br" -> "tr"]
        newRotation == IF shape.rotation = 0 THEN 180
                       ELSE IF shape.rotation = 90 THEN 270
                       ELSE IF shape.rotation = 180 THEN 0
                       ELSE 90
        updates ==
            IF shape.type = TRIANGLE
            THEN [rotation |-> newRotation]
            ELSE IF shape.type = QUARTER_CIRCLE
            THEN [corner |-> cornerMap[IF shape.corner = NoCorner
                                       THEN "tl" ELSE shape.corner]]
            ELSE EmptyMap
    IN updateShape(saveToHistory(w), shape.id, updates)

rotate90(w, shape, canvasSize) ==
    LET cornerMap == [c \in ArcCorner |->
                        CASE c = "tl" -> "tr" [] c = "tr" -> "br"
                          [] c = "br" -> "bl" [] c = "bl" -> "tl"]
        w1 == saveToHistory(w)
    IN
    IF shape.type = TRIANGLE
    THEN updateShape(w1, shape.id, [rotation |-> (shape.rotation + 90) % 360])
    ELSE IF shape.type = QUARTER_CIRCLE
    THEN updateShape(w1, shape.id,
                     [corner |-> cornerMap[IF shape.corner = NoCorner
                                           THEN "tl" ELSE shape.corner]])
    ELSE w1

RECURSIVE MinOver(_)
MinOver(qs) == IF Len(qs) = 1 THEN qs[1] ELSE Min(qs[1], MinOver(Tail(qs)))

RECURSIVE MaxOver(_)
MaxOver(qs) == IF Len(qs) = 1 THEN qs[1] ELSE Max(qs[1], MaxOver(Tail(qs)))

\* values.reduce((sum, v) => sum + v, 0)
RECURSIVE SumOver(_)
SumOver(qs) == IF qs = <<>> THEN Q(0)
               ELSE Add(SumOver(SubSeq(qs, 1, Len(qs) - 1)), qs[Len(qs)])

\* shapes.forEach(shape => updateShape(shape.id, updateOf[shape]))
RECURSIVE UpdateEach(_, _, _)
UpdateEach(w, shapeSeq, updateSeq) ==
    IF shapeSeq = <<>> THEN w
    ELSE UpdateEach(updateShape(w, Head(shapeSeq).id, Head(updateSeq)),
                    Tail(shapeSeq), Tail(updateSeq))

\* the single-shape branch: align to the canvas edges
alignToCanvas(shape, alignment, canvasSize) ==
    CASE alignment = "left" -> [x |-> Q(0)]
      [] alignment = "right" -> [x |-> Sub(canvasSize, shape.width)]
      [] alignment = "center-h" -> [x |-> DivBy(Sub(canvasSize, shape.width), 2)]
      [] alignment = "top" -> [y |-> Q(0)]
      [] alignment = "bottom" -> [y |-> Sub(canvasSize, shape.height)]
      [] alignment = "center-v" -> [y |-> DivBy(Sub(canvasSize, shape.height), 2)]

\* the branch for two or more shapes: align relative to each other
alignToEachOther(shapeSeq, alignment) ==
    LET n == Len(shapeSeq)
        xs == [i \in 1..n |-> shapeSeq[i].x]
        ys == [i \in 1..n |-> shapeSeq[i].y]
        rights == [i \in 1..n |-> Add(shapeSeq[i].x, shapeSeq[i].width)]
        bottoms == [i \in 1..n |-> Add(shapeSeq[i].y, shapeSeq[i].height)]
        centerXs == [i \in 1..n |-> Add(shapeSeq[i].x, DivBy(shapeSeq[i].width, 2))]
        centerYs == [i \in 1..n |-> Add(shapeSeq[i].y, DivBy(shapeSeq[i].height, 2))]
        avgCenterX == DivBy(SumOver(centerXs), n)
        avgCenterY == DivBy(SumOver(centerYs), n)
    IN [i \in 1..n |->
          CASE alignment = "left" -> [x |-> MinOver(xs)]
            [] alignment = "right" -> [x |-> Sub(MaxOver(rights), shapeSeq[i].width)]
            [] alignment = "center-h" ->
                   [x |-> Sub(avgCenterX, DivBy(shapeSeq[i].width, 2))]
            [] alignment = "top" -> [y |-> MinOver(ys)]
            [] alignment = "bottom" -> [y |-> Sub(MaxOver(bottoms), shapeSeq[i].height)]
            [] alignment = "center-v" ->
                   [y |-> Sub(avgCenterY, DivBy(shapeSeq[i].height, 2))]]

alignShapes(w, shapeSeq, alignment, canvasSize) ==
    IF Len(shapeSeq) = 0 THEN w
    ELSE LET w1 == saveToHistory(w) IN
         IF Len(shapeSeq) = 1
         THEN updateShape(w1, shapeSeq[1].id,
                          alignToCanvas(shapeSeq[1], alignment, canvasSize))
         ELSE UpdateEach(w1, shapeSeq, alignToEachOther(shapeSeq, alignment))

-----------------------------------------------------------------------------
(* utils/shapeHelpers *)

\* a normalisation that snaps the position and does not clamp it
normalizeShapeToCanvas_Unclamped(shape, gridSize) ==
    LET canvasSize == Q(gridSize * CELL_SIZE)
        snapDimension(dimension) ==
            clamp(snapToGrid(dimension), Q(CELL_SIZE), canvasSize)
    IN [shape EXCEPT !.x = snapToGrid(shape.x), !.y = snapToGrid(shape.y),
                     !.width = Min(snapDimension(shape.width), canvasSize),
                     !.height = Min(snapDimension(shape.height), canvasSize)]

normalizeShapeToCanvas(shape, gridSize) ==
    LET canvasSize == Q(gridSize * CELL_SIZE)
        snapDimension(dimension) ==
            clamp(snapToGrid(dimension), Q(CELL_SIZE), canvasSize)
        width == Min(snapDimension(shape.width), canvasSize)
        height == Min(snapDimension(shape.height), canvasSize)
        maxX == Max(Q(0), Sub(canvasSize, width))
        maxY == Max(Q(0), Sub(canvasSize, height))
        x == clamp(snapToGrid(shape.x), Q(0), maxX)
        y == clamp(snapToGrid(shape.y), Q(0), maxY)
    IN [shape EXCEPT !.x = x, !.y = y, !.width = width, !.height = height]

-----------------------------------------------------------------------------
(* utils/fontFactory and utils/fontValidator: a font as JSON data.  Numbers *)
(* are integers, null is "null".                                           *)

createDefaultGlyph(char, gridSize) ==
    [char |-> char, unicode |-> IF char = "A" THEN 65 ELSE 66, gridSize |-> gridSize,
     shapes |-> <<>>, leftBearing |-> 1, rightBearing |-> 1,
     advanceWidth |-> gridSize, modifiedAt |-> 0]

\* the default font, with the glyphs of the model's two characters
createDefaultFont ==
    LET metrics == [gridSize |-> 12, ascender |-> 10, capHeight |-> 8, xHeight |-> 5,
                    baseline |-> 0, descender |-> -2, defaultAdvanceWidth |-> 12,
                    tracking |-> 0]
    IN [meta |-> [familyName |-> "ModGrid", styleName |-> "Regular"],
        metrics |-> metrics,
        glyphs |-> [char \in Glyphs |-> createDefaultGlyph(char, metrics.gridSize)],
        version |-> 4]

\* issue.path.join('.')
RECURSIVE JoinPath(_)
JoinPath(path) ==
    IF Len(path) = 0 THEN ""
    ELSE IF Len(path) = 1 THEN path[1]
    ELSE path[1] \o "." \o JoinPath(Tail(path))

\* FontSchema.parse: the issues of the data, every failed check with the path
\* of its field, in the order of the schema's keys; array indices count
\* from 0
FontSchemaIssues(data) ==
    LET Issue(failed, path, message) ==
            IF failed THEN <<[path |-> path, message |-> message]>> ELSE <<>>
        ShapeIssues(shape, path) ==
            Issue(shape.type \notin ShapeType, path \o <<"type">>, "Invalid enum value")
            \o Issue(shape.width < 0, path \o <<"width">>, "Number must be greater than or equal to 0")
            \o Issue(shape.height < 0, path \o <<"height">>, "Number must be greater than or equal to 0")
            \o Issue(shape.corner \notin ArcCorner \cup {"null"}, path \o <<"corner">>,
                     "Invalid enum value")
        GlyphIssues(g, path) ==
            Issue(g.gridSize < 1, path \o <<"gridSize">>, "Number must be greater than or equal to 1")
            \o (IF Len(g.shapes) = 0 THEN <<>>
                ELSE ShapeIssues(g.shapes[1], path \o <<"shapes", ToString(0)>>))
            \o (IF Len(g.shapes) < 2 THEN <<>>
                ELSE ShapeIssues(g.shapes[2], path \o <<"shapes", ToString(1)>>))
    IN Issue(data.meta.familyName = "", <<"meta", "familyName">>,
             "String must contain at least 1 character(s)")
       \o Issue(data.meta.styleName = "", <<"meta", "styleName">>,
                "String must contain at least 1 character(s)")
       \o Issue(data.metrics.gridSize < 1, <<"metrics", "gridSize">>,
                "Number must be greater than or equal to 1")
       \o GlyphIssues(data.glyphs["A"], <<"glyphs", "A">>)
       \o GlyphIssues(data.glyphs["B"], <<"glyphs", "B">>)

\* FontSchema.parse: the value returned for data without issues, rebuilt from
\* the keys the schema declares
FontSchemaParse(data) ==
    [meta |-> [k \in {"familyName", "styleName"} |-> data.meta[k]],
     metrics |-> [k \in {"gridSize", "ascender", "capHeight", "xHeight", "baseline",
                         "descender", "defaultAdvanceWidth", "tracking"} |->
                     data.metrics[k]],
     glyphs |-> [g \in DOMAIN data.glyphs |->
                   [k \in {"char", "unicode", "gridSize", "shapes", "leftBearing",
                           "rightBearing", "advanceWidth", "modifiedAt"} |->
                       IF k # "shapes" THEN data.glyphs[g][k]
                       ELSE [i \in 1..Len(data.glyphs[g].shapes) |->
                               [f \in {"id", "type", "x", "y", "width", "height",
                                       "rotation", "corner"} |->
                                   data.glyphs[g].shapes[i][f]]]]],
     version |-> data.version]

\* a validator that reports the first issue only
validateFontWithErrors_FirstIssue(data) ==
    LET issues == FontSchemaIssues(data) IN
    IF issues = <<>> THEN [success |-> TRUE, font |-> FontSchemaParse(data)]
    ELSE [success |-> FALSE,
          errors |-> <<JoinPath(issues[1].path) \o ": " \o issues[1].message>>]

validateFontWithErrors(data) ==
    LET issues == FontSchemaIssues(data) IN
    IF issues = <<>> THEN [success |-> TRUE, font |-> FontSchemaParse(data)]
    ELSE [success |-> FALSE,
          errors |-> [i \in 1..Len(issues) |->
                        (IF JoinPath(issues[i].path) = "" THEN "<root>"
                         ELSE JoinPath(issues[i].path))
                        \o ": " \o issues[i].message]]

-----------------------------------------------------------------------------
(* utils/performanceHelpers: hit testing *)

\* a / b for b # 0
Div(a, b) ==
    LET k == OddPart(Abs(b[1])) IN
    Fl(IF b[1] < 0 THEN -a[1] ELSE a[1], k,
       Log2(a[2]) + Log2(Abs(b[1]) \div k) - Log2(b[2]))

Sq(a) == Mul(a, a)

\* cos and sin of -rotation degrees, for the quarter turns the editor produces
CosNeg(rotation) == CASE rotation % 360 = 0 -> Q(1)
                      [] rotation % 360 = 90 -> Q(0)
                      [] rotation % 360 = 180 -> Q(-1)
                      [] rotation % 360 = 270 -> Q(0)
SinNeg(rotation) == CASE rotation % 360 = 0 -> Q(0)
                      [] rotation % 360 = 90 -> Q(-1)
                      [] rotation % 360 = 180 -> Q(0)
                      [] rotation % 360 = 270 -> Q(1)

\* a hit test whose box test looks at the left and top edges only
isPointInShape_LeftTopOnly(x, y, shape) == ~(Lt(x, shape.x) \/ Lt(y, shape.y))

isPointInShape(x, y, shape) ==
    IF \/ Lt(x, shape.x) \/ Lt(Add(shape.x, shape.width), x)
       \/ Lt(y, shape.y) \/ Lt(Add(shape.y, shape.height), y)
    THEN FALSE
    ELSE IF shape.type = "SQUARE" THEN TRUE
    ELSE IF shape.type = "CIRCLE" THEN
        \E centerX \in {Add(shape.x, DivBy(shape.width, 2))} :
        \E centerY \in {Add(shape.y, DivBy(shape.height, 2))} :
        \E rx \in {DivBy(shape.width, 2)} :
        \E ry \in {DivBy(shape.height, 2)} :
           \* a zero radius makes the sum NaN, and NaN <= 1 is false
           /\ rx[1] # 0 /\ ry[1] # 0
           /\ Le(Add(Sq(Div(Sub(x, centerX), rx)), Sq(Div(Sub(y, centerY), ry))), Q(1))
    ELSE IF shape.type = "TRIANGLE" THEN
        \E centerX \in {Add(shape.x, DivBy(shape.width, 2))} :
        \E centerY \in {Add(shape.y, DivBy(shape.height, 2))} :
        \E cos \in {CosNeg(shape.rotation)} :
        \E sin \in {SinNeg(shape.rotation)} :
        \E dx \in {Sub(x, centerX)} :
        \E dy \in {Sub(y, centerY)} :
        \E rotatedX \in {Add(centerX, Sub(Mul(dx, cos), Mul(dy, sin)))} :
        \E rotatedY \in {Add(centerY, Add(Mul(dx, sin), Mul(dy, cos)))} :
        \E x1 \in {shape.x} :
        \E y1 \in {shape.y} :
        \E x2 \in {Add(shape.x, shape.width)} :
        \E y2 \in {Add(shape.y, shape.height)} :
        \E x3 \in {shape.x} :
        \E y3 \in {Add(shape.y, shape.height)} :
        \E denominator \in {Add(Mul(Sub(y2, y3), Sub(x1, x3)),
                                Mul(Sub(x3, x2), Sub(y1, y3)))} :
           \* a zero denominator makes a and b infinite or NaN: no range test passes
           /\ denominator[1] # 0
           /\ \E a \in {Div(Add(Mul(Sub(y2, y3), Sub(rotatedX, x3)),
                                Mul(Sub(x3, x2), Sub(rotatedY, y3))), denominator)} :
              \E b \in {Div(Add(Mul(Sub(y3, y1), Sub(rotatedX, x3)),
                                Mul(Sub(x1, x3), Sub(rotatedY, y3))), denominator)} :
              \E c \in {Sub(Sub(Q(1), a), b)} :
                 /\ Le(Q(0), a) /\ Le(a, Q(1))
                 /\ Le(Q(0), b) /\ Le(b, Q(1))
                 /\ Le(Q(0), c) /\ Le(c, Q(1))
    ELSE IF shape.type = "QUARTER_CIRCLE" THEN
        \E corner \in {IF shape.corner = NoCorner THEN "tl" ELSE shape.corner} :
        \E relX \in {Sub(x, shape.x)} :
        \E relY \in {Sub(y, shape.y)} :
        \E cx \in {IF corner \in {"tr", "br"} THEN shape.width ELSE Q(0)} :
        \E cy \in {IF corner \in {"bl", "br"} THEN shape.height ELSE Q(0)} :
        \E distX \in {Sub(relX, cx)} :
        \E distY \in {Sub(relY, cy)} :
           \* normalizedDist > 1; with a zero extent the distance is NaN and
           \* the comparison is false
           IF /\ shape.width[1] # 0 /\ shape.height[1] # 0
              /\ Lt(Q(1), Add(Sq(Div(distX, shape.width)),
                              Sq(Div(distY, shape.height))))
           THEN FALSE
           ELSE CASE corner = "tl" -> Le(Q(0), relX) /\ Le(Q(0), relY)
                  [] corner = "tr" -> Le(relX, shape.width) /\ Le(Q(0), relY)
                  [] corner = "bl" -> Le(Q(0), relX) /\ Le(relY, shape.height)
                  [] corner = "br" -> Le(relX, shape.width) /\ Le(relY, shape.height)
    ELSE TRUE

\* renderShapeElement draws a triangle as the path (x, y), (x + width,
\* y + height), (x, y + height) under rotate(rotation centerX centerY); this
\* is where the transform puts the right-angle vertex (x, y + height)
RightAngleVertex(shape) ==
    LET turned(centerX, centerY, cos, sin) ==
            LET at(px, py) ==
                    [x |-> Add(centerX, Sub(Mul(px, cos), Mul(py, sin))),
                     y |-> Add(centerY, Add(Mul(px, sin), Mul(py, cos)))]
            IN at(Sub(shape.x, centerX), Sub(Add(shape.y, shape.height), centerY))
    IN turned(Add(shape.x, DivBy(shape.width, 2)), Add(shape.y, DivBy(shape.height, 2)),
              CosNeg(shape.rotation), Sub(Q(0), SinNeg(shape.rotation)))

-----------------------------------------------------------------------------
(* components/EditorCanvas: what the handlers read *)

glyph == font[currentGlyph]

canvasSize == canvasSizeOf(glyph)

\* glyph.shapes.filter(s => selectedShapeIds.includes(s.id))
selectedShapes == FilterShapes(glyph.shapes, SeqToSet(selectedShapeIds))

Handles == <<"resize-nw", "resize-ne", "resize-sw", "resize-se">>

HandleCentre(shape, handle) ==
    [x |-> IF handle \in {"resize-ne", "resize-se"}
           THEN Add(shape.x, shape.width) ELSE shape.x,
     y |-> IF handle \in {"resize-sw", "resize-se"}
           THEN Add(shape.y, shape.height) ELSE shape.y]

\* the hit area of a handle is a circle of radius 12 around the corner
HandleRadius == 12

OnHandle(point, shape, handle) ==
    LET c == HandleCentre(shape, handle) IN
    Le(Add(Sq(Sub(point.x, c.x)), Sq(Sub(point.y, c.y))), Q(HandleRadius * HandleRadius))

\* e.target.getAttribute('data-handle'): the topmost hit area under the
\* pointer; indicators are drawn over all shapes, later ones on top
HandleTarget(point) ==
    LET hits == {<<i, k>> \in (1..Len(selectedShapes)) \X (1..4) :
                    OnHandle(point, selectedShapes[i], Handles[k])}
    IN IF hits = {} THEN "null"
       ELSE LET top == CHOOSE h \in hits :
                          \A o \in hits : o[1] < h[1] \/ (o[1] = h[1] /\ o[2] <= h[2])
            IN Handles[top[2]]

\* a search from the bottom of the stack: the first shape drawn wins
ClickedShape_Lowest(point) ==
    LET lowest(hits) ==
            IF hits = {} THEN <<>>
            ELSE <<glyph.shapes[CHOOSE i \in hits : \A j \in hits : i <= j]>>
    IN lowest({i \in 1..Len(glyph.shapes) :
                  isPointInShape(point.x, point.y, glyph.shapes[i])})

\* the topmost shape under the pointer, as a sequence of at most one shape
ClickedShape(point) ==
    LET topmost(hits) ==
            IF hits = {} THEN <<>>
            ELSE <<glyph.shapes[CHOOSE i \in hits : \A j \in hits : j <= i]>>
    IN topmost({i \in 1..Len(glyph.shapes) :
                   isPointInShape(point.x, point.y, glyph.shapes[i])})

-----------------------------------------------------------------------------
(* components/EditorCanvas: the pointer handlers *)

SetStore(w) ==
    /\ font' = w.font
    /\ history' = w.history
    /\ pendingShapeUpdates' = w.pending
    /\ pendingFrame' = w.frame

\* the shape array with the pending updates resolved
liveShapes == getGlyphSnapshot(currentGlyph, font[currentGlyph], pendingShapeUpdates)

liveShapesNext ==
    getGlyphSnapshot(currentGlyph', font'[currentGlyph'], pendingShapeUpdates')

Settled == DOMAIN pendingShapeUpdates[currentGlyph] = {}

\* handlers that take a history snapshot before they change the shapes
Mutations == {"mouseUp", "mouseLeave", "flipHorizontal", "flipVertical", "rotate90",
              "align", "delete", "cut", "duplicate", "paste", "clear"}

PointerUps == {"mouseUp", "mouseLeave"}

PointerEvents == {"mouseDown", "mouseMove", "mouseUp", "mouseLeave"}

\* Bookkeeping of a handler run; the last conjunct of every handler.
\* gestureStart keeps the shapes shown at pointer-down, whether updates were
\* pending then, and whether the gesture is pure: begun with no drag or
\* resize in progress and made of pointer events only.  After a
\* mutation that began with no pending updates and took one snapshot, an
\* undo has to restore the shapes the mutation began with (for a drag or a
\* resize: those at pointer-down); after that undo, run with no pending
\* updates, a redo has to restore the shapes the undo began with.
Ran(name) ==
    /\ stepsLeft' = stepsLeft - 1
    /\ op' = name
    /\ call' = call
    /\ gestureStart' =
           IF name = "mouseDown"
           THEN [shapes |-> liveShapes, settled |-> Settled,
                 pure |-> ~isDragging /\ ~isResizing]
           ELSE IF name \in PointerEvents THEN gestureStart
           ELSE [gestureStart EXCEPT !.pure = FALSE]
    /\ expected' =
           IF /\ name \in Mutations
              /\ Len(history'[currentGlyph].past) = Len(history[currentGlyph].past) + 1
           THEN [undo |-> IF name \in PointerUps /\ (isDragging \/ isResizing)
                          THEN IF gestureStart.settled /\ gestureStart.pure
                               THEN Some(gestureStart.shapes) ELSE None
                          ELSE IF Settled THEN Some(liveShapes) ELSE None,
                 redo |-> None]
           ELSE IF name = "undo"
           THEN [undo |-> None,
                 redo |-> IF expected.undo # None /\ Settled
                          THEN Some(liveShapes) ELSE None]
           ELSE [undo |-> None, redo |-> None]

\* a drag that adds the displacement to the shape's current position
DragUpdate_FromCurrent(shape, startPos, dx, dy, size) ==
    [x |-> clamp(snapToGrid(Add(shape.x, dx)), Q(0), Sub(size, shape.width)),
     y |-> clamp(snapToGrid(Add(shape.y, dy)), Q(0), Sub(size, shape.height))]

\* the position a dragged shape is given for the pointer displacement (dx, dy)
DragUpdate(shape, startPos, dx, dy, size) ==
    [x |-> clamp(snapToGrid(Add(startPos.x, dx)), Q(0), Sub(size, shape.width)),
     y |-> clamp(snapToGrid(Add(startPos.y, dy)), Q(0), Sub(size, shape.height))]

\* selectedShapeIds.forEach(shapeId => ...) of the drag branch
RECURSIVE DragEach(_, _, _, _)
DragEach(w, ids, dx, dy) ==
    IF ids = <<>> THEN w
    ELSE LET shapeId == Head(ids) IN
         IF shapeId \notin ShapeIds(glyph.shapes) \/ shapeId \notin DOMAIN shapeStartPositions
         THEN DragEach(w, Tail(ids), dx, dy)
         ELSE DragEach(updateShape(w, shapeId,
                           DragUpdate(FindShape(glyph.shapes, shapeId),
                                      shapeStartPositions[shapeId], dx, dy, canvasSize)),
                       Tail(ids), dx, dy)

\* a resize that takes the new extents without snapping them to the grid
ResizeUpdate_Unsnapped(start, handle, dx, dy, size) ==
    [width |-> clamp(Max(Q(CELL_SIZE), Add(start.width, dx)),
                     Q(CELL_SIZE), Sub(size, start.x)),
     height |-> clamp(Max(Q(CELL_SIZE), Add(start.height, dy)),
                      Q(CELL_SIZE), Sub(size, start.y))]

\* the update the resize branch computes from the shape at pointer-down
ResizeUpdate(start, handle, dx, dy, size) ==
    LET cell == Q(CELL_SIZE)
        right == Add(start.x, start.width)
        bottom == Add(start.y, start.height)
        newX == clamp(snapToGrid(Add(start.x, dx)), Q(0), Sub(right, cell))
        newY == clamp(snapToGrid(Add(start.y, dy)), Q(0), Sub(bottom, cell))
        newWidth == Max(cell, snapToGrid(Add(start.width, dx)))
        newHeight == Max(cell, snapToGrid(Add(start.height, dy)))
    IN CASE handle = "resize-nw" ->
                [x |-> newX, y |-> newY,
                 width |-> Max(cell, Sub(right, newX)),
                 height |-> Max(cell, Sub(bottom, newY))]
         [] handle = "resize-ne" ->
                [y |-> newY,
                 width |-> clamp(newWidth, cell, Sub(size, start.x)),
                 height |-> Max(cell, Sub(bottom, newY))]
         [] handle = "resize-sw" ->
                [x |-> newX,
                 width |-> Max(cell, Sub(right, newX)),
                 height |-> clamp(newHeight, cell, Sub(size, start.y))]
         [] handle = "resize-se" ->
                [width |-> clamp(newWidth, cell, Sub(size, start.x)),
                 height |-> clamp(newHeight, cell, Sub(size, start.y))]
         [] OTHER -> EmptyMap

\* the rectangle spanned by the start point and the pointer
SpannedBox(start, point) ==
    [x |-> Min(start.x, point.x),
     y |-> Min(start.y, point.y),
     width |-> AbsQ(Sub(point.x, start.x)),
     height |-> AbsQ(Sub(point.y, start.y))]

\* a modifier click that makes the clicked shape the whole selection
ModifierSelection_Replace(ids, clickedId) == <<clickedId>>

\* the selection a click with shift, ctrl or cmd held leaves
ModifierSelection(ids, clickedId) ==
    IF clickedId \in SeqToSet(ids)
    THEN SelectSeq(ids, LAMBDA id : id # clickedId)
    ELSE Append(ids, clickedId)

\* start positions recorded for the first shape of the selection alone
StartPositions_FirstOnly(selectionForDrag) ==
    [id \in {Head(selectionForDrag)} \cap ShapeIds(glyph.shapes) |->
        [x |-> FindShape(glyph.shapes, id).x, y |-> FindShape(glyph.shapes, id).y]]

\* the positions map built at the start of a drag
StartPositions(selectionForDrag) ==
    [id \in SeqToSet(selectionForDrag) \cap ShapeIds(glyph.shapes) |->
        [x |-> FindShape(glyph.shapes, id).x, y |-> FindShape(glyph.shapes, id).y]]

handleMouseDown(point, isModifierPressed) ==
    /\ stepsLeft > 0
    /\ LET press(handle, clicked) ==
           IF tool = "select" /\ Len(selectedShapeIds) = 1 /\ handle # "null"
           THEN IF selectedShapeIds[1] \in ShapeIds(glyph.shapes)
                THEN /\ isResizing' = TRUE
                     /\ resizeHandle' = handle
                     /\ dragStart' = Some(point)
                     /\ resizeStartShape' = Some(FindShape(glyph.shapes, selectedShapeIds[1]))
                     /\ UNCHANGED <<isDragging, isSelecting, shapeStartPositions,
                                    drawStart, previewBox, selectionBox, selectedShapeIds>>
                ELSE UNCHANGED <<canvasVars, selectedShapeIds>>
           ELSE IF tool = "draw"
           THEN /\ drawStart' = Some([x |-> snapToGrid(point.x), y |-> snapToGrid(point.y)])
                /\ UNCHANGED <<isDragging, isResizing, isSelecting, dragStart,
                               shapeStartPositions, resizeStartShape, resizeHandle,
                               previewBox, selectionBox, selectedShapeIds>>
           ELSE IF clicked # <<>>
           THEN LET clickedShape == clicked[1]
                    isAlreadySelected == clickedShape.id \in SeqToSet(selectedShapeIds)
                    selectionForDrag == IF isAlreadySelected THEN selectedShapeIds
                                        ELSE <<clickedShape.id>>
                IN IF isModifierPressed
                   THEN /\ selectedShapeIds' = ModifierSelection(selectedShapeIds, clickedShape.id)
                        /\ UNCHANGED canvasVars
                   ELSE /\ selectedShapeIds' = selectionForDrag
                        /\ isDragging' = TRUE
                        /\ dragStart' = Some(point)
                        /\ shapeStartPositions' = StartPositions(selectionForDrag)
                        /\ UNCHANGED <<isResizing, isSelecting, resizeStartShape,
                                       resizeHandle, drawStart, previewBox, selectionBox>>
           ELSE /\ selectedShapeIds' = IF isModifierPressed THEN selectedShapeIds ELSE <<>>
                /\ isSelecting' = TRUE
                /\ dragStart' = Some(point)
                /\ UNCHANGED <<isDragging, isResizing, shapeStartPositions, resizeStartShape,
                               resizeHandle, drawStart, previewBox, selectionBox>>
       IN press(HandleTarget(point), ClickedShape(point))
    /\ pointer' = point
    /\ UNCHANGED <<storeVars, clipboardShapes, clipboardSourceGlyph, tool,
                   selectedShapeType, nextId>>
    /\ Ran("mouseDown")

Drawing == drawStart # None /\ ~isSelecting
Marquee == isSelecting /\ dragStart # None
DraggingShapes == /\ isDragging /\ Len(selectedShapeIds) > 0 /\ dragStart # None
                  /\ DOMAIN shapeStartPositions # {}
Resizing == /\ isResizing /\ Len(selectedShapeIds) = 1 /\ dragStart # None
            /\ resizeHandle # "null" /\ resizeStartShape # None

\* the throttled handler, run with the latest pointer position
handleMouseMove(point) ==
    /\ stepsLeft > 0
    /\ Drawing \/ Marquee \/ DraggingShapes \/ Resizing
    /\ IF Drawing
       THEN LET box == SpannedBox(drawStart[1], point) IN
            /\ previewBox' = Some([x |-> snapToGrid(box.x), y |-> snapToGrid(box.y),
                                   width |-> snapToGrid(box.width),
                                   height |-> snapToGrid(box.height)])
            /\ UNCHANGED <<selectionBox, storeVars>>
       ELSE IF Marquee
       THEN /\ selectionBox' = Some(SpannedBox(dragStart[1], point))
            /\ UNCHANGED <<previewBox, storeVars>>
       ELSE LET dx == Sub(point.x, dragStart[1].x)
                dy == Sub(point.y, dragStart[1].y)
            IN /\ IF DraggingShapes
                  THEN SetStore(DragEach(Store, selectedShapeIds, dx, dy))
                  ELSE SetStore(updateShape(Store, selectedShapeIds[1],
                                    ResizeUpdate(resizeStartShape[1], resizeHandle,
                                                 dx, dy, canvasSize)))
               /\ UNCHANGED <<previewBox, selectionBox, currentGlyph>>
    /\ pointer' = point
    /\ UNCHANGED <<appVars, isDragging, isResizing, isSelecting, dragStart,
                   shapeStartPositions, resizeStartShape, resizeHandle, drawStart,
                   nextId>>
    /\ Ran("mouseMove")

\* shapes whose bounding box lies wholly inside the marquee
OverlapIds_Contained(shapeSeq, box) ==
    LET hit == FilterShapes(shapeSeq,
                   {sh.id : sh \in {t \in SeqToSet(shapeSeq) :
                       /\ Le(box.x, t.x)
                       /\ Le(Add(t.x, t.width), Add(box.x, box.width))
                       /\ Le(box.y, t.y)
                       /\ Le(Add(t.y, t.height), Add(box.y, box.height))}})
    IN [i \in 1..Len(hit) |-> hit[i].id]

\* shapes whose bounding box overlaps the marquee
OverlapIds(shapeSeq, box) ==
    LET hit == FilterShapes(shapeSeq,
                   {sh.id : sh \in {t \in SeqToSet(shapeSeq) :
                       /\ Lt(t.x, Add(box.x, box.width))
                       /\ Lt(box.x, Add(t.x, t.width))
                       /\ Lt(t.y, Add(box.y, box.height))
                       /\ Lt(box.y, Add(t.y, t.height))}})
    IN [i \in 1..Len(hit) |-> hit[i].id]

\* onMouseUp, onPointerUp, onMouseLeave and onPointerLeave share the handler
handleMouseUp(name) ==
    /\ stepsLeft > 0
    /\ LET finishDraw == drawStart # None /\ previewBox # None /\ ~isSelecting
           commit == /\ finishDraw
                     /\ Le(Q(CELL_SIZE), previewBox[1].width)
                     /\ Le(Q(CELL_SIZE), previewBox[1].height)
           w1 == IF commit
                 THEN addShape(saveToHistory(Store),
                               createShape(nextId + 1, selectedShapeType,
                                           previewBox[1].x, previewBox[1].y,
                                           previewBox[1].width, previewBox[1].height))
                 ELSE Store
           finishMarquee == isSelecting /\ selectionBox # None
           w2 == IF isDragging \/ isResizing THEN saveToHistory(w1) ELSE w1
       IN /\ commit => Len(glyph.shapes) < MaxShapes
          /\ SetStore(w2)
          /\ nextId' = IF commit THEN nextId + 1 ELSE nextId
          /\ drawStart' = IF finishDraw THEN None ELSE drawStart
          /\ previewBox' = IF finishDraw THEN None ELSE previewBox
          /\ selectedShapeIds' = IF finishMarquee
                                 THEN OverlapIds(glyph.shapes, selectionBox[1])
                                 ELSE selectedShapeIds
          /\ selectionBox' = IF finishMarquee THEN None ELSE selectionBox
          /\ isSelecting' = IF finishMarquee THEN FALSE ELSE isSelecting
    /\ isDragging' = FALSE
    /\ isResizing' = FALSE
    /\ dragStart' = None
    /\ shapeStartPositions' = EmptyMap
    /\ resizeHandle' = "null"
    /\ resizeStartShape' = None
    /\ UNCHANGED <<currentGlyph, clipboardShapes, clipboardSourceGlyph, tool,
                   selectedShapeType, pointer>>
    /\ Ran(name)

-----------------------------------------------------------------------------
(* Keyboard and toolbar commands of EditorCanvas and App *)

\* selectedShapeIds.forEach(shapeId => { find the shape; transform it })
RECURSIVE TransformEach(_, _, _)
TransformEach(w, ids, kind) ==
    IF ids = <<>> THEN w
    ELSE LET shapeId == Head(ids)
             w1 == IF shapeId \notin ShapeIds(glyph.shapes) THEN w
                   ELSE LET shape == FindShape(glyph.shapes, shapeId) IN
                        CASE kind = "flipHorizontal" -> flipHorizontal(w, shape, canvasSize)
                          [] kind = "flipVertical" -> flipVertical(w, shape, canvasSize)
                          [] kind = "rotate90" -> rotate90(w, shape, canvasSize)
         IN TransformEach(w1, Tail(ids), kind)

handleTransform(kind) ==
    /\ stepsLeft > 0
    /\ Len(selectedShapeIds) > 0
    /\ SetStore(TransformEach(Store, selectedShapeIds, kind))
    /\ UNCHANGED <<currentGlyph, appVars, canvasVars, nextId, pointer>>
    /\ Ran(kind)

handleAlignShape(alignment) ==
    /\ stepsLeft > 0
    /\ Len(selectedShapeIds) > 0
    /\ SetStore(alignShapes(Store, selectedShapes, alignment, canvasSize))
    /\ UNCHANGED <<currentGlyph, appVars, canvasVars, nextId, pointer>>
    /\ Ran("align")

handleDelete ==
    /\ stepsLeft > 0
    /\ Len(selectedShapeIds) > 0
    /\ SetStore(deleteShapes(Store, selectedShapeIds))
    /\ selectedShapeIds' = <<>>
    /\ UNCHANGED <<currentGlyph, clipboardShapes, clipboardSourceGlyph, tool,
                   selectedShapeType, canvasVars, nextId, pointer>>
    /\ Ran("delete")

\* selectedShapeIds.forEach(id => onDuplicateShape(id)); the k-th clone gets
\* the id firstId + k
RECURSIVE DuplicateEach(_, _, _)
DuplicateEach(w, ids, firstId) ==
    IF ids = <<>> THEN w
    ELSE DuplicateEach(duplicateShape(w, Head(ids), firstId + 1), Tail(ids), firstId + 1)

handleDuplicate ==
    /\ stepsLeft > 0
    /\ Len(selectedShapeIds) > 0
    /\ Len(glyph.shapes) + Len(selectedShapeIds) <= MaxShapes
    /\ SetStore(DuplicateEach(Store, selectedShapeIds, nextId))
    /\ nextId' = nextId + Len(selectedShapeIds)
    /\ UNCHANGED <<currentGlyph, appVars, canvasVars, pointer>>
    /\ Ran("duplicate")

handleCopy ==
    /\ stepsLeft > 0
    /\ Len(selectedShapeIds) > 0
    /\ clipboardShapes' = selectedShapes
    /\ clipboardSourceGlyph' = currentGlyph
    /\ UNCHANGED <<storeVars, selectedShapeIds, tool, selectedShapeType, canvasVars,
                   nextId, pointer>>
    /\ Ran("copy")

handleCut ==
    /\ stepsLeft > 0
    /\ Len(selectedShapeIds) > 0
    /\ clipboardShapes' = selectedShapes
    /\ clipboardSourceGlyph' = currentGlyph
    /\ SetStore(deleteShapes(Store, selectedShapeIds))
    /\ selectedShapeIds' = <<>>
    /\ UNCHANGED <<currentGlyph, tool, selectedShapeType, canvasVars, nextId,
                   pointer>>
    /\ Ran("cut")

\* the shapes a paste adds; the i-th gets the id firstId + i
PastedShapes(firstId) ==
    LET isSameGlyph == clipboardSourceGlyph = currentGlyph
        targetGrid == glyph.gridSize
        offsetStep == IF isSameGlyph THEN CELL_SIZE ELSE 0
    IN [i \in 1..Len(clipboardShapes) |->
          LET offsetMultiplier == IF isSameGlyph THEN i ELSE 0
              offset == Q(offsetMultiplier * offsetStep)
              shape == clipboardShapes[i]
          IN normalizeShapeToCanvas(
                 [shape EXCEPT !.id = firstId + i,
                               !.x = Add(shape.x, offset),
                               !.y = Add(shape.y, offset)],
                 targetGrid)]

handlePaste ==
    /\ stepsLeft > 0
    /\ Len(clipboardShapes) > 0
    /\ Len(glyph.shapes) + Len(clipboardShapes) <= MaxShapes
    /\ LET shapesToAdd == PastedShapes(nextId) IN
       /\ SetStore(addShapes(saveToHistory(Store), shapesToAdd))
       /\ selectedShapeIds' = [i \in 1..Len(shapesToAdd) |-> shapesToAdd[i].id]
    /\ nextId' = nextId + Len(clipboardShapes)
    /\ UNCHANGED <<currentGlyph, clipboardShapes, clipboardSourceGlyph, tool,
                   selectedShapeType, canvasVars, pointer>>
    /\ Ran("paste")

handleSelectAll ==
    /\ stepsLeft > 0
    /\ selectedShapeIds' = [i \in 1..Len(glyph.shapes) |-> glyph.shapes[i].id]
    /\ selectedShapeIds' # selectedShapeIds
    /\ UNCHANGED <<storeVars, clipboardShapes, clipboardSourceGlyph, tool,
                   selectedShapeType, canvasVars, nextId, pointer>>
    /\ Ran("selectAll")

handleEscape ==
    /\ stepsLeft > 0
    /\ selectedShapeIds # <<>>
    /\ selectedShapeIds' = <<>>
    /\ UNCHANGED <<storeVars, clipboardShapes, clipboardSourceGlyph, tool,
                   selectedShapeType, canvasVars, nextId, pointer>>
    /\ Ran("escape")

\* the Clear button, with the confirm dialog accepted
handleClearGlyph ==
    /\ stepsLeft > 0
    /\ SetStore(clearGlyph(Store))
    /\ UNCHANGED <<currentGlyph, appVars, canvasVars, nextId, pointer>>
    /\ Ran("clear")

handleUndo ==
    /\ stepsLeft > 0
    /\ Len(history[currentGlyph].past) > 0
    /\ SetStore(undo(Store))
    /\ UNCHANGED <<currentGlyph, appVars, canvasVars, nextId, pointer>>
    /\ Ran("undo")

handleRedo ==
    /\ stepsLeft > 0
    /\ Len(history[currentGlyph].future) > 0
    /\ SetStore(redo(Store))
    /\ UNCHANGED <<currentGlyph, appVars, canvasVars, nextId, pointer>>
    /\ Ran("redo")

\* GlyphGrid: select a glyph.  When the key changes, the effects of App and
\* EditorCanvas clear the selection and reset the pointer state.
handleSelectGlyph(glyphKey) ==
    /\ stepsLeft > 0
    /\ SetStore(setCurrentGlyph(Store))
    /\ currentGlyph' = glyphKey
    /\ IF font[glyphKey].char # glyph.char
       THEN /\ selectedShapeIds' = <<>>
            /\ isDragging' = FALSE
            /\ isResizing' = FALSE
            /\ isSelecting' = FALSE
            /\ dragStart' = None
            /\ shapeStartPositions' = EmptyMap
            /\ resizeStartShape' = None
            /\ resizeHandle' = "null"
            /\ drawStart' = None
            /\ previewBox' = None
            /\ selectionBox' = None
       ELSE /\ selectedShapeIds' = IF glyphKey # currentGlyph THEN <<>> ELSE selectedShapeIds
            /\ UNCHANGED canvasVars
    /\ UNCHANGED <<clipboardShapes, clipboardSourceGlyph, tool, selectedShapeType,
                   nextId, pointer>>
    /\ Ran("selectGlyph")

handleToolChange(newTool) ==
    /\ stepsLeft > 0
    /\ newTool # tool
    /\ tool' = newTool
    /\ UNCHANGED <<storeVars, selectedShapeIds, clipboardShapes, clipboardSourceGlyph,
                   selectedShapeType, canvasVars, nextId, pointer>>
    /\ Ran("tool")

handleSelectShape(type) ==
    /\ stepsLeft > 0
    /\ type # selectedShapeType
    /\ selectedShapeType' = type
    /\ UNCHANGED <<storeVars, selectedShapeIds, clipboardShapes, clipboardSourceGlyph,
                   tool, canvasVars, nextId, pointer>>
    /\ Ran("shapeType")

\* the animation-frame callback of schedulePendingUpdate
FrameCallback ==
    /\ pendingFrame
    /\ LET w1 == applyPendingShapeUpdates(cancelScheduledFrame(Store)) IN
       SetStore(IF \E g \in Glyphs : DOMAIN w1.pending[g] # {}
                THEN schedulePendingUpdate(w1) ELSE w1)
    /\ op' = "frame"
    /\ UNCHANGED <<currentGlyph, appVars, canvasVars, nextId, stepsLeft, pointer,
                   gestureStart, expected, call>>

-----------------------------------------------------------------------------
(* The document and the inputs *)

P(x, y) == [x |-> Q(x), y |-> Q(y)]

\* a font as importFont loads it: one glyph per character, two resolutions
Document ==
    [g \in Glyphs |->
        IF g = "A"
        THEN [char |-> "A", gridSize |-> 10,
              shapes |-> <<createShape(1, SQUARE, Q(64), Q(64), Q(32), Q(32)),
                           createShape(2, TRIANGLE, Q(256), Q(64), Q(64), Q(64))>>]
        ELSE [char |-> "B", gridSize |-> 6,
              shapes |-> <<createShape(3, QUARTER_CIRCLE, Q(0), Q(0), Q(64), Q(64)),
                           createShape(4, CIRCLE, Q(96), Q(96), Q(64), Q(32))>>]]

\* pointer positions delivered by the canvas
Points == {P(80, 80), P(280, 80), P(320, 16)}

InCanvas(point) ==
    /\ Le(Q(0), point.x) /\ Le(point.x, canvasSize)
    /\ Le(Q(0), point.y) /\ Le(point.y, canvasSize)

\* centres of the resize handles of a single selected shape
HandlePoints ==
    IF Len(selectedShapes) # 1 THEN {}
    ELSE {HandleCentre(selectedShapes[1], Handles[k]) : k \in 1..4}

\* selections of glyph A the exploration starts from
StartSelections == {<<>>, <<1>>, <<2>>, <<1, 2>>}

\* The editor with a document loaded, glyph A on the canvas, a tool picked
\* and some shapes selected; no gesture in progress, nothing to undo.
Loaded(document, startTool, startSelection, budget) ==
    /\ font = document
    /\ currentGlyph = "A"
    /\ history = [g \in Glyphs |-> [past |-> <<>>, future |-> <<>>]]
    /\ pendingShapeUpdates = [g \in Glyphs |-> EmptyMap]
    /\ pendingFrame = FALSE
    /\ selectedShapeIds = startSelection
    /\ clipboardShapes = <<>>
    /\ clipboardSourceGlyph = "null"
    /\ tool = startTool
    /\ selectedShapeType = SQUARE
    /\ isDragging = FALSE
    /\ isResizing = FALSE
    /\ isSelecting = FALSE
    /\ dragStart = None
    /\ shapeStartPositions = EmptyMap
    /\ resizeStartShape = None
    /\ resizeHandle = "null"
    /\ drawStart = None
    /\ previewBox = None
    /\ selectionBox = None
    /\ nextId = 4
    /\ stepsLeft = budget
    /\ op = "init"
    /\ pointer = P(0, 0)
    /\ gestureStart = [shapes |-> document["A"].shapes, settled |-> TRUE, pure |-> FALSE]
    /\ expected = [undo |-> None, redo |-> None]

NoCall == [fn |-> "none"]

Started(startTool, startSelection, budget) ==
    /\ Loaded(Document, startTool, startSelection, budget)
    /\ call = NoCall

Init == \E startTool \in Tool : \E startSelection \in StartSelections :
            Started(startTool, startSelection, MaxSteps)

MouseDown == \E point \in {p \in Points \cup HandlePoints : InCanvas(p)} :
                 \E isModifierPressed \in BOOLEAN :
                     handleMouseDown(point, isModifierPressed)
MouseMove == \E point \in {p \in Points : InCanvas(p)} : handleMouseMove(point)
MouseUp == handleMouseUp("mouseUp")
MouseLeave == handleMouseUp("mouseLeave")
FlipHorizontal == handleTransform("flipHorizontal")
FlipVertical == handleTransform("flipVertical")
Rotate90 == handleTransform("rotate90")
Align == \E alignment \in AlignmentType : handleAlignShape(alignment)
SelectGlyph == \E glyphKey \in Glyphs : handleSelectGlyph(glyphKey)
ToolChange == \E newTool \in Tool : handleToolChange(newTool)
SelectShape == \E type \in ShapeType : handleSelectShape(type)

Next ==
    \/ FrameCallback
    \/ MouseDown
    \/ MouseMove
    \/ MouseUp
    \/ MouseLeave
    \/ FlipHorizontal
    \/ FlipVertical
    \/ Rotate90
    \/ Align
    \/ handleDelete
    \/ handleDuplicate
    \/ handleCopy
    \/ handleCut
    \/ handlePaste
    \/ handleSelectAll
    \/ handleEscape
    \/ handleClearGlyph
    \/ handleUndo
    \/ handleRedo
    \/ SelectGlyph
    \/ ToolChange
    \/ SelectShape

Spec == Init /\ [][Next]_vars

-----------------------------------------------------------------------------
(* Gestures followed by undo and redo *)

InitUndo == \E startSelection \in StartSelections :
                Started("select", startSelection, MaxUndoSteps)

NextUndo ==
    \/ MouseDown
    \/ MouseMove
    \/ MouseUp
    \/ Rotate90
    \/ handleClearGlyph
    \/ handleUndo
    \/ handleRedo
    \/ FrameCallback

SpecUndo == InitUndo /\ [][NextUndo]_vars

-----------------------------------------------------------------------------
(* The pointer gestures and the glyph switch *)

InitPointer == \E startTool \in Tool : \E startSelection \in StartSelections :
                   Started(startTool, startSelection, MaxPointerSteps)

NextPointer ==
    \/ MouseDown
    \/ MouseMove
    \/ MouseUp
    \/ MouseLeave
    \/ SelectGlyph
    \/ ToolChange
    \/ FrameCallback

SpecPointer == InitPointer /\ [][NextPointer]_vars

-----------------------------------------------------------------------------
(* The flips, on shapes at rest and on shapes being dragged *)

InitFlip == \E startSelection \in StartSelections :
                Started("select", startSelection, MaxFlipSteps)

NextFlip ==
    \/ FlipHorizontal
    \/ FlipVertical
    \/ Rotate90
    \/ MouseDown
    \/ MouseMove
    \/ handleSelectAll
    \/ SelectGlyph
    \/ FrameCallback

SpecFlip == InitFlip /\ [][NextFlip]_vars

-----------------------------------------------------------------------------
(* A long history: one shape rotated, undone and redone, the commands no   *)
(* faster than the frames                                                  *)

InitHistory == Started("select", <<2>>, MaxHistorySteps)

PacedRotate90 == ~pendingFrame /\ Rotate90
PacedUndo == ~pendingFrame /\ handleUndo
PacedRedo == ~pendingFrame /\ handleRedo

NextHistory ==
    \/ PacedRotate90
    \/ PacedUndo
    \/ PacedRedo
    \/ FrameCallback

SpecHistory == InitHistory /\ [][NextHistory]_vars

-----------------------------------------------------------------------------
(* One shape of any type, rotation and corner, turned by quarter turns, each *)
(* turn written to the document before the next                             *)

\* the document with the shapes of glyph A replaced
DocumentOf(shapeSeq) ==
    [g \in Glyphs |-> IF g = "A" THEN [Document[g] EXCEPT !.shapes = shapeSeq]
                                ELSE Document[g]]

InitRotate ==
    \E type \in ShapeType, rotation \in {0, 90, 180, 270},
       corner \in ArcCorner \cup {NoCorner} :
        LET shape == [createShape(1, type, Q(64), Q(64), Q(64), Q(64))
                         EXCEPT !.rotation = rotation, !.corner = corner]
        IN /\ Loaded(DocumentOf(<<shape>>), "select", <<1>>, MaxRotateSteps)
           /\ call = [fn |-> "rotate90", given |-> <<shape>>]

NextRotate ==
    \/ PacedRotate90
    \/ FrameCallback

SpecRotate == InitRotate /\ [][NextRotate]_vars

-----------------------------------------------------------------------------
(* Two or three selected shapes aligned to each other, the same alignment   *)
(* applied again once the first has been written to the document            *)

\* a triangle, an arc and, in a selection of three, a square
InitAlign ==
    LET Boxes == {[x |-> Q(x), y |-> Q(y), width |-> Q(width), height |-> Q(96 - width)] :
                     x \in {0, 32, 96}, y \in {0, 64}, width \in {32, 64}}
        Thirds == {[x |-> Q(0), y |-> Q(32), width |-> Q(32), height |-> Q(32)],
                   [x |-> Q(64), y |-> Q(32), width |-> Q(32), height |-> Q(32)],
                   [x |-> Q(160), y |-> Q(96), width |-> Q(96), height |-> Q(64)]}
        Wide == [x |-> Q(0), y |-> Q(0), width |-> Q(256), height |-> Q(32)]
        first(b) == [createShape(1, TRIANGLE, b.x, b.y, b.width, b.height)
                        EXCEPT !.rotation = 90]
        second(b) == [createShape(2, QUARTER_CIRCLE, b.x, b.y, b.width, b.height)
                         EXCEPT !.corner = "br"]
        third(b) == createShape(3, SQUARE, b.x, b.y, b.width, b.height)
        AlignInputs ==
            {<<first(a), second(b)>> : a \in Boxes, b \in Boxes}
            \cup {<<first(a), second(b), third(c)>> :
                     a \in Boxes \cup {Wide}, b \in Boxes, c \in Thirds}
    IN \E shapeSeq \in AlignInputs : \E alignment \in AlignmentType :
          /\ Loaded(DocumentOf(shapeSeq), "select",
                    [i \in 1..Len(shapeSeq) |-> shapeSeq[i].id], MaxAlignSteps)
          /\ call = [fn |-> "alignShapes", given |-> shapeSeq,
                     alignment |-> alignment]

PacedAlign == ~pendingFrame /\ call.fn = "alignShapes" /\ handleAlignShape(call.alignment)

NextAlign ==
    \/ PacedAlign
    \/ FrameCallback

SpecAlign == InitAlign /\ [][NextAlign]_vars

(* isPointInShape as a function: one call per behaviour, with shapes as the *)
(* document stores them (the ShapeType values) and as the function's own   *)
(* comparisons name them, degenerate extents included.                     *)

InitHit ==
    \E type \in ShapeType \cup {"SQUARE", "CIRCLE", "TRIANGLE", "QUARTER_CIRCLE"},
       rotation \in {0, 90}, corner \in {NoCorner, "br"},
       width \in {-32, 0, 32, 64}, height \in {0, 32, 64},
       i \in 0..MaxHalfCells, j \in 0..MaxHalfCells :
        /\ Loaded(Document, "select", <<>>, 1)
        /\ call = [fn |-> "isPointInShape",
                   given |-> <<[createShape(1, type, Q(32), Q(32), Q(width), Q(height))
                                   EXCEPT !.rotation = rotation, !.corner = corner]>>,
                   x |-> Q(16 * i), y |-> Q(16 * j), out |-> FALSE]

HitTest ==
    /\ stepsLeft > 0
    /\ call.fn = "isPointInShape"
    /\ call' = [call EXCEPT !.out = isPointInShape(call.x, call.y, call.given[1])]
    /\ stepsLeft' = stepsLeft - 1
    /\ op' = "isPointInShape"
    /\ UNCHANGED <<storeVars, currentGlyph, appVars, canvasVars, nextId, pointer,
                   gestureStart, expected>>

NextHit == HitTest

SpecHit == InitHit /\ [][NextHit]_vars

(* Pointer gestures with the select tool: on the two shapes of glyph A, and *)
(* on an imported document whose only shape is narrower than a cell and    *)
(* touches the far edges of the canvas.  The pointer also moves to a point *)
(* on the top edge of the shapes and to one 40 units off a handle.         *)

InitGesture ==
    \E document \in {Document,
                     DocumentOf(<<createShape(1, SQUARE, Q(300), Q(300), Q(20), Q(20))>>)} :
    \E startSelection \in {<<>>, <<1>>} :
        /\ Loaded(document, "select", startSelection, MaxGestureSteps)
        /\ call = NoCall

GestureMove ==
    \E point \in Points \cup {P(280, 64), P(136, 136)} : handleMouseMove(point)

NextGesture ==
    \/ MouseDown
    \/ GestureMove
    \/ MouseUp
    \/ MouseLeave
    \/ FrameCallback

SpecGesture == InitGesture /\ [][NextGesture]_vars

(* Clicks with and without a modifier key, on the two shapes of glyph A    *)
(* and on two squares that lie on top of each other, in either order.  The *)
(* modifier key is held down or left alone for a whole session; call keeps *)
(* which, so that a state shows what kind of click was made.               *)

StackedShapes ==
    {<<createShape(1, SQUARE, Q(64), Q(64), Q(32), Q(32)),
       createShape(2, SQUARE, Q(64), Q(64), Q(64), Q(64))>>,
     <<createShape(2, SQUARE, Q(64), Q(64), Q(64), Q(64)),
       createShape(1, SQUARE, Q(64), Q(64), Q(32), Q(32))>>}

InitClick ==
    \E document \in {Document} \cup {DocumentOf(shapeSeq) : shapeSeq \in StackedShapes} :
    \E startSelection \in StartSelections :
    \E isModifierPressed \in BOOLEAN :
        /\ Loaded(document, "select", startSelection, MaxClickSteps)
        /\ call = [fn |-> "handleMouseDown", isModifierPressed |-> isModifierPressed]

Click ==
    \E point \in {p \in Points \cup HandlePoints : InCanvas(p)} :
        handleMouseDown(point, call.isModifierPressed)

NextClick ==
    \/ Click
    \/ MouseMove
    \/ MouseUp
    \/ FrameCallback

SpecClick == InitClick /\ [][NextClick]_vars

(* The resize branch of the pointer-move handler on its own: a shape that  *)
(* lies inside the canvas of glyph A, on or off the grid, a cell wide or   *)
(* narrower as an imported font may have it, one of its four handles and a *)
(* displacement of the pointer.                                            *)

ResizeStarts ==
    {createShape(1, SQUARE, x, y, width, height) :
        x \in {Q(0), Q(16), Q(64), Q(256)}, y \in {Q(0), Q(64)},
        width \in {Q(16), Q(32), Q(64)}, height \in {Q(16), Q(64)}}

ResizeDeltas == {Q(-200), Q(-16), Q(0), Q(40), Q(300)}

InitResize ==
    \E start \in ResizeStarts, k \in 1..4, dx \in ResizeDeltas, dy \in ResizeDeltas :
        /\ Loaded(DocumentOf(<<start>>), "select", <<1>>, 1)
        /\ call = [fn |-> "resize", given |-> <<start>>, handle |-> Handles[k],
                   dx |-> dx, dy |-> dy, out |-> start]

\* the shape with the update of one pointer-move of the resize merged in
Resize ==
    /\ stepsLeft > 0
    /\ call.fn = "resize"
    /\ call' = [call EXCEPT !.out = MergeShape(call.given[1],
                                       ResizeUpdate(call.given[1], call.handle,
                                                    call.dx, call.dy, canvasSize))]
    /\ stepsLeft' = stepsLeft - 1
    /\ op' = "resize"
    /\ UNCHANGED <<storeVars, currentGlyph, appVars, canvasVars, nextId, pointer,
                   gestureStart, expected>>

SpecResize == InitResize /\ [][Resize]_vars

(* Keyboard commands that change the selection while the pointer is held   *)
(* on a handle or on a shape.  One button: no second pointer-down arrives  *)
(* before the pointer-up.                                                  *)

\* a pointer-down with no gesture in progress
Press ==
    /\ ~isDragging /\ ~isResizing /\ ~isSelecting
    /\ MouseDown

InitHeld == \E startSelection \in {<<1>>, <<1, 2>>} :
                Started("select", startSelection, MaxHeldSteps)

NextHeld ==
    \/ Press
    \/ MouseMove
    \/ MouseUp
    \/ handleCopy
    \/ handlePaste
    \/ handleSelectAll
    \/ handleEscape
    \/ FrameCallback

SpecHeld == InitHeld /\ [][NextHeld]_vars

(* Copy, cut and paste within a glyph and across glyphs.  Glyph A holds    *)
(* one shape of an imported font, on or off the grid, inside or outside    *)
(* the canvas, smaller than a cell or larger than the canvas; glyph B has  *)
(* any resolution the editor offers.                                       *)

InitPaste ==
    \E gridSize \in 6..16,
       x \in {Q(-48), Q(0), Norm(81, 2), Q(288), Q(600)}, y \in {Q(16), Q(288), Q(500)},
       width \in {Q(0), Q(16), Q(32), Q(48), Q(1000)}, height \in {Q(32), Q(80)} :
        /\ Loaded([g \in Glyphs |->
                     IF g = "A"
                     THEN [Document[g] EXCEPT
                              !.shapes = <<createShape(1, SQUARE, x, y, width, height)>>]
                     ELSE [Document[g] EXCEPT !.gridSize = gridSize]],
                  "select", <<1>>, MaxPasteSteps)
        /\ call = NoCall

NextPaste ==
    \/ handleCopy
    \/ handleCut
    \/ handlePaste
    \/ handleSelectAll
    \/ SelectGlyph
    \/ FrameCallback

SpecPaste == InitPaste /\ [][NextPaste]_vars

(* validateFontWithErrors as a function: one call per behaviour, on the    *)
(* default font with a shape in glyph A, and on that font with any         *)
(* combination of fields set to values the schema rejects.                 *)

InitValidate ==
    \E familyName \in {"ModGrid", ""}, styleName \in {"Regular", ""},
       gridSize \in {12, 0}, glyphGridSize \in {12, 1, 0},
       type \in {"triangle", "TRIANGLE"}, corner \in {"null", "tl", "TL"},
       width \in {32, 0, -32}, shapeCount \in 0..2 :
        LET shape == [id |-> 1, type |-> type, x |-> -16, y |-> 0, width |-> width,
                      height |-> 32, rotation |-> 0, corner |-> corner]
        IN /\ Loaded(Document, "select", <<>>, 1)
           /\ call = [fn |-> "validateFontWithErrors",
                      given |-> <<[createDefaultFont EXCEPT
                                     !.meta.familyName = familyName,
                                     !.meta.styleName = styleName,
                                     !.metrics.gridSize = gridSize,
                                     !.glyphs["A"].gridSize = glyphGridSize,
                                     !.glyphs["A"].shapes =
                                         [i \in 1..shapeCount |->
                                             IF i = 1 THEN shape
                                             ELSE [shape EXCEPT !.id = 2, !.width = 64]]]>>,
                      out |-> [success |-> FALSE, errors |-> <<>>]]

Validate ==
    /\ stepsLeft > 0
    /\ call.fn = "validateFontWithErrors"
    /\ call' = [call EXCEPT !.out = validateFontWithErrors(call.given[1])]
    /\ stepsLeft' = stepsLeft - 1
    /\ op' = "validateFontWithErrors"
    /\ UNCHANGED <<storeVars, currentGlyph, appVars, canvasVars, nextId, pointer,
                   gestureStart, expected>>

SpecValidate == InitValidate /\ [][Validate]_vars

(* The functions useFontEditor returns, called one at a time as a consumer *)
(* of the hook calls them, each call followed by a render.  Shape ids are  *)
(* taken from glyph A, from glyph B, and 0, which no shape carries.  A     *)
(* switch of glyph and a frame callback do not count against the budget.   *)
(* call.left keeps, for a glyph that was left, its shapes and its stacks   *)
(* as they were when it was left.                                          *)

InitStore ==
    /\ Loaded(Document, "select", <<>>, MaxStoreSteps)
    /\ call = [fn |-> "none", given |-> <<>>, left |-> [g \in Glyphs |-> None]]

Called(name, given) ==
    /\ op' = name
    /\ call' = [fn |-> name, given |-> given,
                left |-> IF name = "setCurrentGlyph" /\ currentGlyph' # currentGlyph
                         THEN [call.left EXCEPT ![currentGlyph] =
                                  Some([shapes |-> font'[currentGlyph].shapes,
                                        history |-> history'[currentGlyph]])]
                         ELSE call.left]
    /\ UNCHANGED <<appVars, canvasVars, pointer, gestureStart, expected>>

CallSaveToHistory ==
    /\ stepsLeft > 0
    /\ SetStore(saveToHistory(Store))
    /\ stepsLeft' = stepsLeft - 1
    /\ UNCHANGED <<currentGlyph, nextId>>
    /\ Called("saveToHistory", <<>>)

CallAddShape ==
    /\ stepsLeft > 0
    /\ Len(glyph.shapes) < MaxShapes
    /\ SetStore(addShape(Store, createShape(nextId + 1, CIRCLE, Q(0), Q(0), Q(32), Q(32))))
    /\ stepsLeft' = stepsLeft - 1
    /\ nextId' = nextId + 1
    /\ UNCHANGED currentGlyph
    /\ Called("addShape", <<nextId + 1>>)

CallUpdateShape ==
    \E shapeId \in {0, 1, 3} :
    \E updates \in {[x |-> Q(96)], [width |-> Q(64), height |-> Q(64)]} :
        /\ stepsLeft > 0
        /\ SetStore(updateShape(Store, shapeId, updates))
        /\ stepsLeft' = stepsLeft - 1
        /\ UNCHANGED <<currentGlyph, nextId>>
        /\ Called("updateShape", <<shapeId>>)

CallDeleteShape ==
    \E shapeId \in {0, 1, 3} :
        /\ stepsLeft > 0
        /\ SetStore(deleteShape(Store, shapeId))
        /\ stepsLeft' = stepsLeft - 1
        /\ UNCHANGED <<currentGlyph, nextId>>
        /\ Called("deleteShape", <<shapeId>>)

CallDuplicateShape ==
    \E shapeId \in {0, 1, 3} :
        /\ stepsLeft > 0
        /\ SetStore(duplicateShape(Store, shapeId, nextId + 1))
        /\ stepsLeft' = stepsLeft - 1
        /\ nextId' = nextId + 1
        /\ UNCHANGED currentGlyph
        /\ Called("duplicateShape", <<shapeId>>)

CallClearGlyph ==
    /\ stepsLeft > 0
    /\ SetStore(clearGlyph(Store))
    /\ stepsLeft' = stepsLeft - 1
    /\ UNCHANGED <<currentGlyph, nextId>>
    /\ Called("clearGlyph", <<>>)

CallUndo ==
    /\ stepsLeft > 0
    /\ SetStore(undo(Store))
    /\ stepsLeft' = stepsLeft - 1
    /\ UNCHANGED <<currentGlyph, nextId>>
    /\ Called("undo", <<>>)

CallRedo ==
    /\ stepsLeft > 0
    /\ SetStore(redo(Store))
    /\ stepsLeft' = stepsLeft - 1
    /\ UNCHANGED <<currentGlyph, nextId>>
    /\ Called("redo", <<>>)

CallUpdateGlyph ==
    \E gridSize \in {6, 16} :
        /\ stepsLeft > 0
        /\ SetStore(updateGlyph(Store, "gridSize", gridSize))
        /\ stepsLeft' = stepsLeft - 1
        /\ UNCHANGED <<currentGlyph, nextId>>
        /\ Called("updateGlyph", <<gridSize>>)

CallSetCurrentGlyph ==
    \E glyphKey \in Glyphs :
        /\ SetStore(setCurrentGlyph(Store))
        /\ currentGlyph' = glyphKey
        /\ UNCHANGED <<stepsLeft, nextId>>
        /\ Called("setCurrentGlyph", <<glyphKey>>)

NextStore ==
    \/ CallSaveToHistory
    \/ CallAddShape
    \/ CallUpdateShape
    \/ CallDeleteShape
    \/ CallDuplicateShape
    \/ CallClearGlyph
    \/ CallUndo
    \/ CallRedo
    \/ CallUpdateGlyph
    \/ CallSetCurrentGlyph
    \/ FrameCallback

SpecStore == InitStore /\ [][NextStore]_vars

(* The pending map and its frame: updates are recorded, the calls that     *)
(* merge or discard them run, and the browser keeps running the animation  *)
(* frames it was asked for.                                                *)

InitFrames ==
    /\ Loaded(Document, "select", <<>>, MaxFrameSteps)
    /\ call = [fn |-> "none", given |-> <<>>, left |-> [g \in Glyphs |-> None]]

NextFrames ==
    \/ CallUpdateShape
    \/ CallSaveToHistory
    \/ CallDeleteShape
    \/ CallClearGlyph
    \/ CallUndo
    \/ CallRedo
    \/ CallSetCurrentGlyph
    \/ FrameCallback

SpecFrames == InitFrames /\ [][NextFrames]_vars /\ WF_vars(FrameCallback)

(* utils/performanceHelpers: rafThrottle, as EditorCanvas wraps             *)
(* handleMouseMove in it.  call holds the closure (rafId, lastArgs), the   *)
(* callbacks the browser has been asked to run in the next frame           *)
(* (requests, by handle), and a log: the move events submitted, numbered   *)
(* as they arrive, and the runs of the wrapped handler, each with its      *)
(* arguments, its frame, the number of events submitted by then and the    *)
(* number submitted before the last cancel().                              *)

InitThrottle ==
    /\ Loaded(Document, "select", <<>>, MaxThrottleSteps)
    /\ call = [fn |-> "rafThrottle", rafId |-> None, lastArgs |-> None,
               requests |-> <<>>, handles |-> 0, frame |-> 0,
               events |-> 0, cancelled |-> 0, runs |-> <<>>]

\* a wrapper that keeps the arguments of the first call of a frame
throttled_KeepsFirst(args) ==
    /\ stepsLeft > 0
    /\ call.fn = "rafThrottle"
    /\ call' = IF call.rafId = None
               THEN [call EXCEPT !.lastArgs = Some([point |-> args, n |-> call.events + 1]),
                                 !.events = @ + 1,
                                 !.rafId = Some(call.handles + 1),
                                 !.requests = Append(@, call.handles + 1),
                                 !.handles = @ + 1]
               ELSE [call EXCEPT !.events = @ + 1]
    /\ stepsLeft' = stepsLeft - 1
    /\ op' = "throttled"
    /\ UNCHANGED <<storeVars, currentGlyph, appVars, canvasVars, nextId, pointer,
                   gestureStart, expected>>

\* throttled(...args): a pointer-move event, the n-th submitted
throttled(args) ==
    /\ stepsLeft > 0
    /\ call.fn = "rafThrottle"
    /\ call' = IF call.rafId = None
               THEN [call EXCEPT !.lastArgs = Some([point |-> args, n |-> call.events + 1]),
                                 !.events = @ + 1,
                                 !.rafId = Some(call.handles + 1),
                                 !.requests = Append(@, call.handles + 1),
                                 !.handles = @ + 1]
               ELSE [call EXCEPT !.lastArgs = Some([point |-> args, n |-> call.events + 1]),
                                 !.events = @ + 1]
    /\ stepsLeft' = stepsLeft - 1
    /\ op' = "throttled"
    /\ UNCHANGED <<storeVars, currentGlyph, appVars, canvasVars, nextId, pointer,
                   gestureStart, expected>>

\* throttled.cancel()
cancel ==
    /\ stepsLeft > 0
    /\ call.fn = "rafThrottle"
    /\ call' = [call EXCEPT
                  !.requests = IF call.rafId = None THEN @
                               ELSE SelectSeq(@, LAMBDA h : h # call.rafId[1]),
                  !.rafId = None,
                  !.lastArgs = None,
                  !.cancelled = call.events]
    /\ stepsLeft' = stepsLeft - 1
    /\ op' = "cancel"
    /\ UNCHANGED <<storeVars, currentGlyph, appVars, canvasVars, nextId, pointer,
                   gestureStart, expected>>

\* an animation frame: the browser runs the callbacks requested for it, in
\* the order of the requests; each runs the wrapped handler if lastArgs is
\* set, then clears rafId and lastArgs
RECURSIVE RunRequests(_, _)
RunRequests(closure, requests) ==
    IF requests = <<>> THEN closure
    ELSE RunRequests(
             [closure EXCEPT
                 !.runs = IF closure.lastArgs = None THEN @
                          ELSE Append(@, [args |-> closure.lastArgs[1],
                                          frame |-> closure.frame,
                                          latest |-> closure.events,
                                          cancelled |-> closure.cancelled]),
                 !.rafId = None,
                 !.lastArgs = None],
             Tail(requests))

AnimationFrame ==
    /\ stepsLeft > 0
    /\ call.fn = "rafThrottle"
    /\ call' = RunRequests([call EXCEPT !.frame = @ + 1, !.requests = <<>>],
                           call.requests)
    /\ stepsLeft' = stepsLeft - 1
    /\ op' = "animationFrame"
    /\ UNCHANGED <<storeVars, currentGlyph, appVars, canvasVars, nextId, pointer,
                   gestureStart, expected>>

NextThrottle ==
    \/ \E point \in {P(80, 80), P(280, 80)} : throttled(point)
    \/ cancel
    \/ AnimationFrame

SpecThrottle == InitThrottle /\ [][NextThrottle]_vars

-----------------------------------------------------------------------------
(* Properties *)

past == history[currentGlyph].past
future == history[currentGlyph].future

\* the pointer state machine is at rest
Idle ==
    /\ drawStart = None /\ previewBox = None
    /\ ~isSelecting /\ selectionBox = None
    /\ ~isDragging /\ ~isResizing

\* the handlers whose result the document keeps: draw-commit and the end of
\* a drag or a resize (pointer-up, mouse-leave), align, duplicate, paste
CommitOps == {"mouseUp", "mouseLeave", "align", "duplicate", "paste"}

InBounds(shape, size) ==
    /\ Le(Q(0), shape.x) /\ Le(Q(0), shape.y)
    /\ Le(Add(shape.x, shape.width), size)
    /\ Le(Add(shape.y, shape.height), size)

OnGrid(shape) ==
    /\ IsMultipleOf(shape.x, CELL_SIZE) /\ IsMultipleOf(shape.y, CELL_SIZE)
    /\ IsMultipleOf(shape.width, CELL_SIZE) /\ IsMultipleOf(shape.height, CELL_SIZE)

\* C1: a handler that mutates the shapes of the current glyph pushes onto the
\* glyph's past the shape array as it was before the mutation began (for the
\* pointer-up that ends a drag or a resize made of pointer events only: the
\* array at pointer-down), and leaves the glyph's future empty.
C1_SnapshotIsPreMutation ==
    [][(op' \in Mutations /\ (history' # history \/ liveShapesNext # liveShapes)) =>
          LET before == IF op' \in PointerUps /\ (isDragging \/ isResizing)
                        THEN gestureStart.shapes ELSE liveShapes
          IN (op' \in PointerUps /\ (isDragging \/ isResizing) => gestureStart.pure) =>
                /\ Len(history'[currentGlyph].past) > Len(past)
                /\ history'[currentGlyph].past[Len(past) + 1] = before
                /\ history'[currentGlyph].future = <<>>]_vars

\* C2: after a mutation that began with no pending updates and took its one
\* snapshot, undo leaves the shape array equal to the one the mutation began
\* with; a redo after that undo leaves it equal to the one the undo began with.
C2_UndoRedoRoundTrip ==
    [][/\ (op' = "undo" /\ expected.undo # None) =>
              font'[currentGlyph].shapes = expected.undo[1]
       /\ (op' = "redo" /\ expected.redo # None) =>
              font'[currentGlyph].shapes = expected.redo[1]]_vars

\* C3: after a committed operation (draw-commit, the end of a drag or resize,
\* align, duplicate, paste) every shape of the glyph's shape array lies inside
\* the canvas.
C3_ShapesInsideCanvas ==
    op \in CommitOps =>
        \A i \in 1..Len(glyph.shapes) : InBounds(glyph.shapes[i], canvasSize)

\* C4: after pointer-up or mouse-leave the pointer state machine is idle: no
\* draw start point, no preview box, no marquee, no drag, no resize.
C4_IdleAfterPointerUp == op \in PointerUps => Idle

\* C5: a switch of the current glyph, from any state of the pointer state
\* machine, leaves it idle, the selection empty and no update pending.
C5_SwitchResets ==
    [][currentGlyph' # currentGlyph =>
          /\ Idle'
          /\ selectedShapeIds' = <<>>
          /\ \A g \in Glyphs : DOMAIN pendingShapeUpdates'[g] = {}]_vars

\* a switch to glyph B made in the middle of a resize of shape 1: its size
\* has changed and no gesture on glyph A was ever completed
C5_SwitchedWhileResizing ==
    /\ op = "selectGlyph" /\ currentGlyph = "B"
    /\ history["A"].past = <<>>
    /\ font["A"].shapes[1].width # Document["A"].shapes[1].width

\* C6: one flip, rotate or duplicate command on two or more selected shapes
\* pushes exactly one snapshot onto the glyph's past.
C6_OneSnapshotPerCommand ==
    [][(/\ op' \in {"flipHorizontal", "flipVertical", "rotate90", "duplicate"}
        /\ Len(selectedShapes) >= 2) =>
          Len(history'[currentGlyph].past) = Len(past) + 1]_vars

\* C7: a glyph's past never holds more than 50 snapshots; a push onto a full
\* past drops the oldest snapshot and keeps the others, in order, below the
\* new one.
C7_PastBounded ==
    /\ [](\A g \in Glyphs : Len(history[g].past) <= HistoryCap)
    /\ [][(op' = "rotate90" /\ Len(past) = HistoryCap) =>
             history'[currentGlyph].past = Append(Tail(past), liveShapes)]_vars

\* the fifty-first push has happened
C7_PushedOntoFullPast ==
    /\ op = "rotate90"
    /\ Len(past) = HistoryCap
    /\ MaxHistorySteps - stepsLeft > HistoryCap

\* C8: after a committed operation, and once the frame has written its
\* updates into the shape array, x, y, width and height of every shape are
\* multiples of the cell size.
C8_OnGrid ==
    (op \in CommitOps \/ (op = "frame" /\ Idle)) =>
        \A i \in 1..Len(glyph.shapes) : OnGrid(glyph.shapes[i])

\* the pointer-move takes the drag branch of the handler
DragApplies == ~Drawing /\ ~Marquee /\ DraggingShapes

\* the shapes a pointer-move drags: selected, on the canvas, with a position
\* recorded at pointer-down
Dragged == SeqToSet(selectedShapeIds) \cap ShapeIds(glyph.shapes)
               \cap DOMAIN shapeStartPositions

\* the drag rule on one axis
DragRule(start, delta, extent) ==
    clamp(snapToGrid(Add(start, delta)), Q(0), Sub(canvasSize, extent))

\* the positions recorded at the pointer-down of a pure gesture, begun with
\* no pending updates, are the ones shown then
StartAsShown(id) ==
    (/\ gestureStart.settled /\ gestureStart.pure
     /\ id \in ShapeIds(gestureStart.shapes)) =>
        /\ shapeStartPositions[id].x = FindShape(gestureStart.shapes, id).x
        /\ shapeStartPositions[id].y = FindShape(gestureStart.shapes, id).y

\* C9: after a pointer-move of a drag every dragged shape is at
\* clamp(snap(start + delta), 0, canvasSize - size) on each axis, start being
\* its position at pointer-down and delta the displacement of the pointer
\* from the pointer-down point; with start x = 64, dx = 200 and a canvas of
\* 320 that is x = min(256, 320 - width).
C9_DragPosition ==
    [][(op' = "mouseMove" /\ DragApplies) =>
          \A id \in Dragged :
             LET shape == FindShape(glyph.shapes, id)
                 start == shapeStartPositions[id]
                 dx == Sub(pointer'.x, dragStart[1].x)
                 dy == Sub(pointer'.y, dragStart[1].y)
                 moved == FindShape(liveShapesNext, id)
             IN /\ StartAsShown(id)
                /\ moved.x = DragRule(start.x, dx, shape.width)
                /\ moved.y = DragRule(start.y, dy, shape.height)
                /\ (start.x = Q(64) /\ dx = Q(200) /\ canvasSize = Q(320)) =>
                       moved.x = Min(Q(256), Sub(Q(320), shape.width))]_vars

\* C9 as stated: with start x = 64, dx = 200 and a canvas of 320 the shape is
\* at x = 320 - width.
C9_ExampleAsStated ==
    [][(op' = "mouseMove" /\ DragApplies) =>
          \A id \in Dragged :
             LET shape == FindShape(glyph.shapes, id)
                 start == shapeStartPositions[id]
                 dx == Sub(pointer'.x, dragStart[1].x)
                 moved == FindShape(liveShapesNext, id)
             IN (start.x = Q(64) /\ dx = Q(200) /\ canvasSize = Q(320)) =>
                    moved.x = Sub(Q(320), shape.width)]_vars

\* shape 1, picked up at (80, 80) with x = 64, has been dragged by dx = 200
C9_DraggedByTwoHundred ==
    /\ op = "mouseMove" /\ isDragging
    /\ dragStart = Some(P(80, 80)) /\ pointer = P(280, 80)
    /\ 1 \in DOMAIN shapeStartPositions /\ shapeStartPositions[1].x = Q(64)
    /\ liveShapes[1].x = Q(256)

\* C10: a flip changes no x, y, width or height; it changes the rotation of
\* triangles and the corner of quarter circles only, and nothing of squares
\* and circles.
C10_FlipKeepsGeometry ==
    [][op' \in {"flipHorizontal", "flipVertical"} =>
          /\ Len(liveShapesNext) = Len(liveShapes)
          /\ \A i \in 1..Len(liveShapes) :
                LET old == liveShapes[i]
                    new == liveShapesNext[i]
                IN /\ new.id = old.id /\ new.type = old.type
                   /\ new.x = old.x /\ new.y = old.y
                   /\ new.width = old.width /\ new.height = old.height
                   /\ old.type # TRIANGLE => new.rotation = old.rotation
                   /\ old.type # QUARTER_CIRCLE => new.corner = old.corner]_vars

\* a vertical flip has turned the triangle of glyph A upside down
C10_TriangleFlipped ==
    /\ op = "flipVertical" /\ currentGlyph = "A"
    /\ \E i \in 1..Len(liveShapes) :
          liveShapes[i].type = TRIANGLE /\ liveShapes[i].rotation = 180

\* C11: after rotate90 has run four times on a shape, each update written to
\* the document before the next turn, the shape's rotation and corner are the
\* ones it started with.
C11_FourQuarterTurns ==
    (/\ call.fn = "rotate90"
     /\ stepsLeft = MaxRotateSteps - 4
     /\ ~pendingFrame) =>
        /\ font["A"].shapes[1].rotation = call.given[1].rotation
        /\ font["A"].shapes[1].corner = call.given[1].corner

\* C12: with two or more shapes selected, the same alignment applied a second
\* time, to the result of the first, changes no shape's x or y.
C12_AlignTwice ==
    [][(/\ op' = "align"
        /\ call.fn = "alignShapes"
        /\ Len(selectedShapes) >= 2
        /\ stepsLeft < MaxAlignSteps) =>
           \A i \in 1..Len(liveShapes) :
               /\ liveShapesNext[i].x = liveShapes[i].x
               /\ liveShapesNext[i].y = liveShapes[i].y]_vars

\* C13: alignShapes on two or more shapes gives all of them the aligned
\* coordinate: the smallest original x for LEFT, the largest original
\* x + width for RIGHT, the mean of the original centres for CENTER_H, and
\* the same on y for TOP, BOTTOM and CENTER_V; every other field of every
\* shape is left as it was.
C13_AlignedCoordinate ==
    [][(/\ op' = "align"
        /\ call.fn = "alignShapes"
        /\ Len(selectedShapes) >= 2
        /\ stepsLeft = MaxAlignSteps) =>
           LET before == liveShapes
               after == liveShapesNext
               n == Len(before)
               horizontal == call.alignment \in {"left", "right", "center-h"}
               origin(s) == IF horizontal THEN s.x ELSE s.y
               extent(s) == IF horizontal THEN s.width ELSE s.height
               other(s) == IF horizontal THEN s.y ELSE s.x
               far(s) == Add(origin(s), extent(s))
               centre(s) == Add(origin(s), DivBy(extent(s), 2))
               sum[k \in 0..n] == IF k = 0 THEN Q(0)
                                  ELSE Add(sum[k - 1], centre(before[k]))
           IN /\ Len(after) = n
              /\ \A i \in 1..n :
                    /\ after[i].id = before[i].id
                    /\ after[i].type = before[i].type
                    /\ after[i].width = before[i].width
                    /\ after[i].height = before[i].height
                    /\ after[i].rotation = before[i].rotation
                    /\ after[i].corner = before[i].corner
                    /\ other(after[i]) = other(before[i])
              /\ call.alignment \in {"left", "top"} =>
                    \E j \in 1..n :
                        /\ \A k \in 1..n : Le(origin(before[j]), origin(before[k]))
                        /\ \A i \in 1..n : origin(after[i]) = origin(before[j])
              /\ call.alignment \in {"right", "bottom"} =>
                    \E j \in 1..n :
                        /\ \A k \in 1..n : Le(far(before[k]), far(before[j]))
                        /\ \A i \in 1..n : far(after[i]) = far(before[j])
              /\ call.alignment \in {"center-h", "center-v"} =>
                    \A i \in 1..n : centre(after[i]) = DivBy(sum[n], n)]_vars

\* C14: isPointInShape answers false for every point outside the shape's
\* bounding box, whatever the type, rotation and corner.
C14_OutsideBoxMisses ==
    (/\ op = "isPointInShape"
     /\ LET shape == call.given[1] IN
        \/ call.x[1] < shape.x[1]
        \/ call.x[1] > shape.x[1] + shape.width[1]
        \/ call.y[1] < shape.y[1]
        \/ call.y[1] > shape.y[1] + shape.height[1]) =>
        call.out = FALSE

\* a stored quarter circle, 64 by 32 at (32, 32), was tested with the point
\* (112, 48), right of its box, and missed
C14_RightOfArc ==
    /\ op = "isPointInShape"
    /\ call.given[1].type = QUARTER_CIRCLE
    /\ call.given[1].width = Q(64) /\ call.given[1].height = Q(32)
    /\ call.x = Q(112) /\ call.y = Q(48)
    /\ call.out = FALSE

\* C19: for a stored circle (type = the ShapeType value of a circle, positive
\* extents) isPointInShape answers true exactly when
\* ((x - cx) / rx)^2 + ((y - cy) / ry)^2 <= 1, so the corner of the bounding
\* box is not a hit.
C19_CircleIsEllipse ==
    (/\ op = "isPointInShape"
     /\ call.given[1].type = CIRCLE
     /\ call.given[1].width[1] > 0 /\ call.given[1].height[1] > 0) =>
        LET shape == call.given[1]
            w == shape.width[1]
            h == shape.height[1]
            \* twice the offsets from the centre
            u == 2 * (call.x[1] - shape.x[1]) - w
            v == 2 * (call.y[1] - shape.y[1]) - h
        IN call.out = (u * u * h * h + v * v * w * w <= w * w * h * h)

\* C20: a shape whose width or height is not positive is never hit, not even
\* by a point on its degenerate box.
C20_DegenerateMisses ==
    (/\ op = "isPointInShape"
     /\ \/ call.given[1].width[1] <= 0
        \/ call.given[1].height[1] <= 0) =>
        call.out = FALSE

\* C15: the pointer-up that ends a marquee drag makes the selection exactly
\* the shapes of the glyph whose bounding box strictly intersects the
\* marquee, each once, whatever was selected before.
C15_MarqueeSelects ==
    [][(/\ op' \in PointerUps
        /\ isSelecting
        /\ selectionBox # None) =>
           LET box == selectionBox[1]
               touched == {i \in 1..Len(glyph.shapes) :
                              /\ Lt(glyph.shapes[i].x, Add(box.x, box.width))
                              /\ Lt(box.x, Add(glyph.shapes[i].x, glyph.shapes[i].width))
                              /\ Lt(glyph.shapes[i].y, Add(box.y, box.height))
                              /\ Lt(box.y, Add(glyph.shapes[i].y, glyph.shapes[i].height))}
           IN /\ SeqToSet(selectedShapeIds') = {glyph.shapes[i].id : i \in touched}
              /\ Len(selectedShapeIds') = Cardinality(touched)]_vars

\* a marquee pulled from the empty corner (320, 16) to (80, 80) crossed both
\* shapes of the glyph, and the pointer-up selected the two
C15_BothUnderMarquee ==
    /\ op = "mouseUp"
    /\ Len(glyph.shapes) = 2
    /\ pointer = P(80, 80)
    /\ stepsLeft = MaxGestureSteps - 3
    /\ selectedShapeIds = <<1, 2>>
    /\ ~isSelecting /\ selectionBox = None
    /\ past = <<>>

\* C17: a pointer-move of a resize (a gesture of pointer events only, begun
\* with no update pending), whatever the handle and the displacement,
\* gives a shape that was inside the canvas at pointer-down a width and a
\* height of at least one cell, x >= 0, y >= 0, x + width <= canvasSize and
\* y + height <= canvasSize.
C17_ResizeStaysInside ==
    [][(/\ op' = "mouseMove"
        /\ ~Drawing /\ ~Marquee /\ ~DraggingShapes /\ Resizing
        /\ gestureStart.settled /\ gestureStart.pure
        /\ selectedShapeIds[1] \in ShapeIds(glyph.shapes)
        /\ InBounds(resizeStartShape[1], canvasSize)) =>
           LET resized == FindShape(liveShapesNext, selectedShapeIds[1])
           IN /\ Le(Q(CELL_SIZE), resized.width)
              /\ Le(Q(CELL_SIZE), resized.height)
              /\ InBounds(resized, canvasSize)]_vars

\* C18: after a pointer-move of a resize the shape's x, y, width and height
\* are those the resize rule gives for the handle, the shape as it was at
\* pointer-down and the displacement of the pointer from the pointer-down
\* point, whatever moves came before; for the SE handle x and y stay and
\* width = clamp(max(cellSize, snap(w0 + dx)), cellSize, canvasSize - x0),
\* likewise the height; a 32 by 32 shape at (64, 64) pulled by (40, 40) is
\* 64 by 64.
C18_ResizeFromStart ==
    [][(/\ op' = "mouseMove"
        /\ ~Drawing /\ ~Marquee /\ ~DraggingShapes /\ Resizing
        /\ gestureStart.settled /\ gestureStart.pure
        /\ selectedShapeIds[1] \in ShapeIds(gestureStart.shapes)) =>
           LET start == FindShape(gestureStart.shapes, selectedShapeIds[1])
               dx == Sub(pointer'.x, dragStart[1].x)
               dy == Sub(pointer'.y, dragStart[1].y)
               rule == ResizeUpdate(start, resizeHandle, dx, dy, canvasSize)
               field(name) == IF name \in DOMAIN rule THEN rule[name] ELSE start[name]
               resized == FindShape(liveShapesNext, selectedShapeIds[1])
               cell == Q(CELL_SIZE)
           IN /\ \A name \in {"x", "y", "width", "height"} : resized[name] = field(name)
              /\ resizeHandle = "resize-se" =>
                    /\ resized.x = start.x /\ resized.y = start.y
                    /\ resized.width =
                           clamp(Max(cell, snapToGrid(Add(start.width, dx))),
                                 cell, Sub(canvasSize, start.x))
                    /\ resized.height =
                           clamp(Max(cell, snapToGrid(Add(start.height, dy))),
                                 cell, Sub(canvasSize, start.y))
                    /\ (/\ start.x = Q(64) /\ start.y = Q(64)
                        /\ start.width = Q(32) /\ start.height = Q(32)
                        /\ dx = Q(40) /\ dy = Q(40)) =>
                           resized.width = Q(64) /\ resized.height = Q(64)]_vars

\* the SE handle of shape 1, 32 by 32 at (64, 64), was taken at (96, 96),
\* pulled elsewhere and then to (136, 136): the shape is 64 by 64 at (64, 64)
C18_PulledByForty ==
    /\ op = "mouseMove" /\ isResizing
    /\ resizeHandle = "resize-se"
    /\ dragStart = Some(P(96, 96)) /\ pointer = P(136, 136)
    /\ stepsLeft = MaxGestureSteps - 3
    /\ gestureStart.settled /\ gestureStart.pure
    /\ liveShapes[1].x = Q(64) /\ liveShapes[1].y = Q(64)
    /\ liveShapes[1].width = Q(64) /\ liveShapes[1].height = Q(64)

\* C16: the pointer-up that ends a draw gesture from the snapped start s to
\* the pointer position p commits a shape exactly when the snapped extent
\* snap(|p - s|) is at least one cell on both axes; the shape is appended as
\* the last one after the snapshot of the shapes before it was pushed, and
\* its box is the snapped rectangle spanned by s and p, with s as one of
\* its corners (start cell (2, 2) dragged by one cell: x = 64, y = 64,
\* width = 32, height = 32).
C16_DrawCommits ==
    [][(/\ op' \in PointerUps
        /\ op = "mouseMove"
        /\ drawStart # None /\ previewBox # None /\ ~isSelecting) =>
           LET s == drawStart[1]
               p == pointer
               width == snapToGrid(AbsQ(Sub(p.x, s.x)))
               height == snapToGrid(AbsQ(Sub(p.y, s.y)))
               commits == Le(Q(CELL_SIZE), width) /\ Le(Q(CELL_SIZE), height)
               n == Len(liveShapes)
               drawn == liveShapesNext[n + 1]
           IN IF commits
              THEN /\ Len(liveShapesNext) = n + 1
                   /\ SubSeq(liveShapesNext, 1, n) = liveShapes
                   /\ past' = Append(past, liveShapes)
                   /\ drawn.width = width /\ drawn.height = height
                   /\ s.x = drawn.x \/ s.x = Add(drawn.x, drawn.width)
                   /\ s.y = drawn.y \/ s.y = Add(drawn.y, drawn.height)
                   /\ (s = P(64, 64) /\ p = P(96, 96)) =>
                          /\ drawn.x = Q(64) /\ drawn.y = Q(64)
                          /\ drawn.width = Q(32) /\ drawn.height = Q(32)
              ELSE /\ liveShapesNext = liveShapes
                   /\ past' = past]_vars

\* C21: updateShape, deleteShape or duplicateShape called with a shape id that
\* no shape of the glyph on the canvas carries leaves the glyph's shape array,
\* its shapes as shown, its past and its future as they were; and so does the
\* frame callback that runs next.
C21_AbsentIdNoEffect ==
    [][/\ (/\ op' \in {"updateShape", "deleteShape", "duplicateShape"}
           /\ call'.given[1] \notin ShapeIds(glyph.shapes))
          => /\ font'[currentGlyph].shapes = glyph.shapes
             /\ liveShapesNext = liveShapes
             /\ history'[currentGlyph] = history[currentGlyph]
       /\ (/\ op' = "frame"
           /\ op \in {"updateShape", "deleteShape", "duplicateShape"}
           /\ call.given[1] \notin ShapeIds(glyph.shapes))
          => /\ liveShapesNext = liveShapes
             /\ history'[currentGlyph] = history[currentGlyph]]_vars

\* C22: a call of the hook while one glyph is on the canvas, a frame callback
\* included, leaves the shape array, the past and the future of every other
\* glyph as they were; a glyph that is not on the canvas has the shapes and
\* the stacks it was left with, and so has a glyph at the moment the editor
\* switches back to it.
C22_OtherGlyphsUntouched ==
    [][/\ \A g \in Glyphs \ {currentGlyph} :
              /\ font'[g].shapes = font[g].shapes
              /\ history'[g] = history[g]
       /\ \A g \in Glyphs \ {currentGlyph'} :
              call'.left[g] # None
              => /\ font'[g].shapes = call'.left[g][1].shapes
                 /\ history'[g] = call'.left[g][1].history
       /\ (currentGlyph' # currentGlyph /\ call.left[currentGlyph'] # None)
          => /\ font'[currentGlyph'].shapes = call.left[currentGlyph'][1].shapes
             /\ history'[currentGlyph'] = call.left[currentGlyph'][1].history]_vars

\* glyph A was edited and left, glyph B was edited and the edit undone, and
\* the editor is back on A
C22_BackOnA ==
    /\ op = "setCurrentGlyph" /\ currentGlyph = "A"
    /\ call.left["A"] # None /\ call.left["B"] # None
    /\ Len(history["A"].past) > 0
    /\ Len(history["B"].future) > 0
    /\ font["B"].shapes = Document["B"].shapes

\* C23: a flip of a triangle, read from the document with no update pending,
\* mirrors the drawn triangle about a centre line of its bounding box: after
\* flipHorizontal the right-angle corner is on the other side of the vertical
\* centre line and on the same side of the horizontal one, after flipVertical
\* it is on the other side of the horizontal centre line and on the same side
\* of the vertical one, whatever the rotation.
C23_FlipMirrorsTriangle ==
    [][(op' \in {"flipHorizontal", "flipVertical"} /\ Settled) =>
          \A i \in 1..Len(liveShapes) :
              (liveShapes[i].type = TRIANGLE /\ liveShapes[i].id \in SeqToSet(selectedShapeIds))
              => LET centre == Add(liveShapes[i].x, DivBy(liveShapes[i].width, 2))
                     middle == Add(liveShapes[i].y, DivBy(liveShapes[i].height, 2))
                     old == RightAngleVertex(liveShapes[i])
                     new == RightAngleVertex(liveShapesNext[i])
                 IN /\ (Lt(old.x, centre) = Lt(new.x, centre)) = (op' = "flipVertical")
                    /\ (Lt(old.y, middle) = Lt(new.y, middle)) = (op' = "flipHorizontal")]_vars

\* C24: after a pointer-move of a drag, any two dragged shapes are as far
\* apart in x and in y as their positions recorded at pointer-down were,
\* wherever the pointer is.
C24_OffsetsKept ==
    [][(op' = "mouseMove" /\ DragApplies) =>
          \A a \in Dragged : \A b \in Dragged :
              LET movedA == FindShape(liveShapesNext, a)
                  movedB == FindShape(liveShapesNext, b)
              IN /\ StartAsShown(a)
                 /\ Sub(movedA.x, movedB.x)
                        = Sub(shapeStartPositions[a].x, shapeStartPositions[b].x)
                 /\ Sub(movedA.y, movedB.y)
                        = Sub(shapeStartPositions[a].y, shapeStartPositions[b].y)]_vars

\* C25: a duplicate appends to the shape array one clone per selected shape,
\* in the order of the selection: the clone has the type, width, height,
\* rotation and corner of its source and the source's position as shown plus
\* (CELL_SIZE, CELL_SIZE), and an id that no shape of the glyph and no other
\* clone has; afterwards the selection is the set of the clones' ids.
C25_DuplicateClones ==
    [][op' = "duplicate" =>
          LET sources == SelectSeq(selectedShapeIds,
                                   LAMBDA id : id \in ShapeIds(liveShapes))
              before == Len(glyph.shapes)
              after == font'[currentGlyph].shapes
          IN /\ Len(after) = before + Len(sources)
             /\ \A k \in 1..Len(sources) :
                    LET source == FindShape(liveShapes, sources[k])
                        clone == after[before + k]
                    IN /\ clone.type = source.type
                       /\ clone.width = source.width /\ clone.height = source.height
                       /\ clone.rotation = source.rotation /\ clone.corner = source.corner
                       /\ clone.x = Add(source.x, Q(CELL_SIZE))
                       /\ clone.y = Add(source.y, Q(CELL_SIZE))
                       /\ clone.id \notin ShapeIds(glyph.shapes)
                       /\ \A j \in 1..Len(sources) :
                              j # k => after[before + j].id # clone.id
             /\ SeqToSet(selectedShapeIds')
                    = {after[before + k].id : k \in 1..Len(sources)}]_vars

\* C26: a paste adds one shape per clipboard shape; whatever the position and
\* the size of the clipboard shape and whatever the resolution of the glyph,
\* every added shape has x, y, width and height that are multiples of
\* CELL_SIZE, is at least one cell wide and high and lies inside the canvas
\* of the glyph; the added shapes carry ids no shape of the glyph had, and
\* they are the selection afterwards.
C26_PastedShapesFit ==
    [][op' = "paste" =>
          LET before == Len(glyph.shapes)
              after == font'[currentGlyph].shapes
          IN /\ Len(after) = before + Len(clipboardShapes)
             /\ SubSeq(after, 1, before) = glyph.shapes
             /\ \A k \in before + 1..Len(after) :
                    /\ OnGrid(after[k])
                    /\ Le(Q(CELL_SIZE), after[k].width)
                    /\ Le(Q(CELL_SIZE), after[k].height)
                    /\ InBounds(after[k], canvasSize)
                    /\ after[k].id \notin ShapeIds(glyph.shapes)
                    /\ \A j \in before + 1..Len(after) :
                           j # k => after[j].id # after[k].id
             /\ selectedShapeIds' = [i \in 1..Len(clipboardShapes) |-> after[before + i].id]]_vars

\* a shape copied from far outside the canvas of glyph A, 1000 wide, has been
\* pasted into glyph B
C26_PastedOversized ==
    /\ op = "paste" /\ currentGlyph = "B"
    /\ Len(clipboardShapes) = 1
    /\ clipboardShapes[1].width = Q(1000) /\ clipboardShapes[1].x = Q(600)
    /\ Len(glyph.shapes) = 3
    /\ glyph.shapes[3].width = canvasSize /\ glyph.shapes[3].x = Q(0)

\* C27: a paste into the glyph the clipboard was filled from gives no pasted
\* shape the x, y, width and height of its clipboard source, nor those of the
\* shape the paste before made of the same clipboard entry.
C27_PasteOffsetsProgress ==
    [][(op' = "paste" /\ clipboardSourceGlyph = currentGlyph) =>
          LET before == Len(glyph.shapes)
              after == font'[currentGlyph].shapes
              Box(shape) == <<shape.x, shape.y, shape.width, shape.height>>
          IN \A i \in 1..Len(clipboardShapes) :
                /\ Box(after[before + i]) # Box(clipboardShapes[i])
                /\ (op = "paste" /\ Len(selectedShapes) = Len(clipboardShapes))
                   => Box(after[before + i])
                         # Box(FindShape(glyph.shapes, selectedShapeIds[i]))]_vars

\* C28: updateGlyph('gridSize', g) sets the gridSize of the glyph on the
\* canvas and changes nothing else: the shapes as shown (pending updates
\* resolved) are the same shapes in the same order, the past and the future of
\* the glyph are the same, and every other glyph is as it was.
C28_OnlyGridSizeChanges ==
    [][op' = "updateGlyph" =>
          /\ font'[currentGlyph].gridSize = call'.given[1]
          /\ font'[currentGlyph].char = glyph.char
          /\ liveShapesNext = liveShapes
          /\ history' = history
          /\ \A g \in Glyphs \ {currentGlyph} : font'[g] = font[g]]_vars

\* the resolution of glyph A went from 10 to 6 while shape 1 had an update
\* queued and the glyph a snapshot to undo to
C28_ShrunkWithHistory ==
    /\ op = "updateGlyph" /\ currentGlyph = "A"
    /\ glyph.gridSize = 6
    /\ Len(history["A"].past) > 0
    /\ Len(glyph.shapes) = 2 /\ glyph.shapes[1].x = Q(96)
    /\ ~InBounds(glyph.shapes[2], canvasSize)

\* C29: validateFontWithErrors returns success, with a font equal to the
\* data, for data that meets every constraint of the schema; for data that
\* violates constraints it returns failure with, for every violated field, an
\* error message that begins with the dotted path of that field.
C29_ValidatorReportsEveryField ==
    (op = "validateFontWithErrors") =>
        LET data == call.given[1]
            out == call.out
            shapesA == data.glyphs["A"].shapes
            violated ==
                {p \in {"meta.familyName"} : data.meta.familyName = ""}
                \cup {p \in {"meta.styleName"} : data.meta.styleName = ""}
                \cup {p \in {"metrics.gridSize"} : data.metrics.gridSize < 1}
                \cup {p \in {"glyphs.A.gridSize"} : data.glyphs["A"].gridSize < 1}
                \cup {p \in {"glyphs.A.shapes.0.type"} :
                         Len(shapesA) > 0
                         /\ shapesA[1].type \notin {"square", "circle", "triangle", "quarter-circle"}}
                \cup {p \in {"glyphs.A.shapes.0.width"} :
                         Len(shapesA) > 0 /\ shapesA[1].width < 0}
                \cup {p \in {"glyphs.A.shapes.0.corner"} :
                         Len(shapesA) > 0
                         /\ shapesA[1].corner \notin {"tl", "tr", "bl", "br", "null"}}
                \cup {p \in {"glyphs.A.shapes.1.type"} :
                         Len(shapesA) > 1
                         /\ shapesA[2].type \notin {"square", "circle", "triangle", "quarter-circle"}}
                \cup {p \in {"glyphs.A.shapes.1.corner"} :
                         Len(shapesA) > 1
                         /\ shapesA[2].corner \notin {"tl", "tr", "bl", "br", "null"}}
            messages == {"Invalid enum value", "String must contain at least 1 character(s)",
                         "Number must be greater than or equal to 0",
                         "Number must be greater than or equal to 1"}
        IN IF violated = {}
           THEN out.success /\ out.font = data
           ELSE /\ ~out.success
                /\ \A p \in violated :
                      \E i \in 1..Len(out.errors) : \E m \in messages :
                          out.errors[i] = p \o ": " \o m

\* the default font with an empty family name and a grid size of 0 was
\* rejected with a message for each
C29_TwoFieldsRejected ==
    /\ op = "validateFontWithErrors"
    /\ call.given[1] = [createDefaultFont EXCEPT !.meta.familyName = "",
                                                 !.metrics.gridSize = 0]
    /\ Len(call.out.errors) = 2

\* C30: however pointer-move events, animation frames and cancel() calls
\* interleave, the wrapped handler runs at most once in a frame; a run gets
\* the arguments of the last move event submitted before it, an event later
\* than the one the run before got; and no run gets an event that was
\* submitted before the last cancel().
C30_ThrottledOncePerFrame ==
    call.fn = "rafThrottle" =>
        \A k \in 1..Len(call.runs) :
            /\ call.runs[k].args.n = call.runs[k].latest
            /\ call.runs[k].args.n > call.runs[k].cancelled
            /\ k > 1 => /\ call.runs[k].frame > call.runs[k - 1].frame
                        /\ call.runs[k].args.n > call.runs[k - 1].args.n

\* two moves before the first frame, of which the handler got the second; a
\* third move cancelled before the next frame
C30_SupersededAndCancelled ==
    /\ call.fn = "rafThrottle"
    /\ call.events = 3 /\ call.cancelled = 3 /\ call.frame = 2
    /\ Len(call.runs) = 1
    /\ call.runs[1].args = [point |-> P(280, 80), n |-> 2]

\* C31: an undo that finds a snapshot in the past of the glyph leaves the
\* glyph's shape array equal to that snapshot, a redo that finds one in the
\* future leaves it equal to that one; either leaves no update pending for any
\* glyph and no frame scheduled, so that no frame callback that runs later
\* writes an update recorded before it.
C31_RestoreDiscardsPending ==
    [][/\ (op' = "undo" /\ Len(past) > 0)
          => /\ font'[currentGlyph].shapes = past[Len(past)]
             /\ liveShapesNext = past[Len(past)]
             /\ \A g \in Glyphs : DOMAIN pendingShapeUpdates'[g] = {}
             /\ ~pendingFrame'
       /\ (op' = "redo" /\ Len(future) > 0)
          => /\ font'[currentGlyph].shapes = future[1]
             /\ liveShapesNext = future[1]
             /\ \A g \in Glyphs : DOMAIN pendingShapeUpdates'[g] = {}
             /\ ~pendingFrame']_vars

\* the third call of a session was an undo that took the shapes of glyph A
\* back to those of the document
C31_UndoneAtOnce ==
    /\ op = "undo" /\ currentGlyph = "A" /\ stepsLeft = 0
    /\ Len(history["A"].future) = 1 /\ Len(history["A"].past) = 0
    /\ font["A"].shapes = Document["A"].shapes

\* C32: a glyph switch, an undo, a redo, a shape deletion or a shape
\* duplication called while updates are pending loses none of them and works on
\* the shapes as shown: the snapshot the call records in the history is the
\* shape array with the pending updates resolved, a glyph switch leaves every
\* glyph's stored array equal to it, and a deletion or duplication leaves the
\* other shapes as they were shown.
C32_PendingMergedFirst ==
    [][/\ (op' = "setCurrentGlyph")
          => /\ font'[currentGlyph].shapes = liveShapes
             /\ \A g \in Glyphs : DOMAIN pendingShapeUpdates'[g] = {}
       /\ (op' = "undo" /\ Len(past) > 0)
          => history'[currentGlyph].future[1] = liveShapes
       /\ (op' = "redo" /\ Len(future) > 0)
          => history'[currentGlyph].past[Len(past) + 1] = liveShapes
       /\ (op' = "deleteShape")
          => /\ history'[currentGlyph].past[Len(past) + 1] = liveShapes
             /\ liveShapesNext = SelectSeq(liveShapes, LAMBDA s : s.id # call'.given[1])
       /\ (op' = "duplicateShape" /\ \E i \in DOMAIN liveShapes : liveShapes[i].id = call'.given[1])
          => /\ history'[currentGlyph].past[Len(past) + 1] = liveShapes
             /\ SubSeq(liveShapesNext, 1, Len(liveShapes)) = liveShapes]_vars

\* C33: an update recorded by updateShape goes into the pending map of the
\* glyph that is active at the call and of no other glyph, and whenever a
\* frame callback or a glyph switch merges the map, every glyph's shape array
\* becomes that glyph's array with that glyph's own pending updates applied:
\* no update reaches a shape of another glyph.
C33_MergedIntoOwnGlyph ==
    [][/\ (op' = "updateShape")
          => /\ font' = font
             /\ \A g \in Glyphs \ {currentGlyph} :
                    pendingShapeUpdates'[g] = pendingShapeUpdates[g]
       /\ (op' \in {"frame", "setCurrentGlyph"})
          => \A g \in Glyphs :
                 font'[g].shapes = getGlyphSnapshot(g, font[g], pendingShapeUpdates)]_vars

\* two updates were recorded while glyph A was active, one of them for the
\* square of A, and the switch to B merged it into A and left B as it was
C33_MergedOnSwitch ==
    /\ op = "setCurrentGlyph" /\ currentGlyph = "B"
    /\ call.left["A"] # None
    /\ stepsLeft = MaxStoreSteps - 2
    /\ Len(font["A"].shapes) = 2
    /\ font["A"].shapes[1].x = Q(96)
    /\ font["A"].shapes[2] = Document["A"].shapes[2]
    /\ history["A"].past = <<>>
    /\ font["B"].shapes = Document["B"].shapes

\* a select-tool pointer-down that lands on a shape and not on the resize
\* handle of a single selected shape, with no drag or resize in progress
ClickOnShape ==
    /\ op' = "mouseDown"
    /\ tool = "select"
    /\ ~isDragging /\ ~isResizing
    /\ ~(Len(selectedShapeIds) = 1 /\ HandleTarget(pointer') # "null")
    /\ ClickedShape(pointer') # <<>>

\* C34: a select-tool pointer-down on a shape with a modifier key held
\* appends the shape's id to the selection when it is absent and removes it
\* when it is present, keeps every other selected id in its place and starts
\* no drag; a pointer-move that finds no drag and no resize in progress, as
\* every move between such a pointer-down and the pointer-up does, leaves the
\* shapes and their pending updates as they are.
C34_ModifierClickToggles ==
    [][/\ (ClickOnShape /\ call.isModifierPressed)
          => LET id == ClickedShape(pointer')[1].id IN
             /\ id \in SeqToSet(selectedShapeIds)
                  => selectedShapeIds' = SelectSeq(selectedShapeIds, LAMBDA s : s # id)
             /\ id \notin SeqToSet(selectedShapeIds)
                  => selectedShapeIds' = Append(selectedShapeIds, id)
             /\ ~isDragging' /\ ~isResizing'
             /\ DOMAIN shapeStartPositions' = {}
             /\ UNCHANGED storeVars
       /\ (op' = "mouseMove" /\ ~isDragging /\ ~isResizing)
          => UNCHANGED storeVars]_vars

\* shift-click on the triangle added it to the selected square: both are
\* selected, in that order, and nothing is being dragged
C34_ShiftClickAdded ==
    /\ call.fn = "handleMouseDown"
    /\ op = "mouseDown" /\ stepsLeft = MaxClickSteps - 1
    /\ call.isModifierPressed
    /\ pointer = P(280, 80)
    /\ font = Document
    /\ selectedShapeIds = <<1, 2>>
    /\ ~isDragging /\ ~isSelecting

\* C35: a select-tool pointer-down without a modifier key on a selected shape
\* keeps the selection as it is, starts a drag and records for every selected
\* shape the (x, y) it has in the glyph's shape array; on a shape that is not
\* selected it makes that shape the whole selection, starts a drag and
\* records the (x, y) of that shape alone.
C35_PlainClickStartsDrag ==
    [][(ClickOnShape /\ ~call.isModifierPressed)
          => LET id == ClickedShape(pointer')[1].id
                 dragged == IF id \in SeqToSet(selectedShapeIds)
                            THEN selectedShapeIds ELSE <<id>>
             IN /\ selectedShapeIds' = dragged
                /\ isDragging' /\ dragStart' = Some(pointer')
                /\ DOMAIN shapeStartPositions' = SeqToSet(dragged)
                /\ \A s \in SeqToSet(dragged) :
                       \E i \in DOMAIN glyph.shapes :
                           /\ glyph.shapes[i].id = s
                           /\ shapeStartPositions'[s] =
                                  [x |-> glyph.shapes[i].x, y |-> glyph.shapes[i].y]
                /\ UNCHANGED storeVars]_vars

\* a plain click on the square while the square and the triangle are selected:
\* both stay selected and both have their start position recorded
C35_DragOfBoth ==
    /\ call.fn = "handleMouseDown"
    /\ op = "mouseDown" /\ stepsLeft = MaxClickSteps - 1
    /\ ~call.isModifierPressed
    /\ pointer = P(80, 80)
    /\ font = Document
    /\ selectedShapeIds = <<1, 2>>
    /\ isDragging
    /\ DOMAIN shapeStartPositions = {1, 2}

\* C36: when a select-tool pointer-down lands on several shapes, the shape it
\* acts on is the hit shape with the greatest index in the shape array: a
\* plain click selects it and records its start position, a modifier click
\* flips its membership of the selection; a hit shape below it that was not
\* selected is neither selected nor given a start position.
C36_TopmostHitWins ==
    [][ClickOnShape
          => LET hits == {i \in DOMAIN glyph.shapes :
                             isPointInShape(pointer'.x, pointer'.y, glyph.shapes[i])}
                 top == CHOOSE i \in hits : \A j \in hits : j <= i
                 topId == glyph.shapes[top].id
             IN /\ IF call.isModifierPressed
                   THEN (topId \in SeqToSet(selectedShapeIds'))
                            # (topId \in SeqToSet(selectedShapeIds))
                   ELSE /\ topId \in SeqToSet(selectedShapeIds')
                        /\ topId \in DOMAIN shapeStartPositions'
                /\ \A j \in hits \ {top} :
                       glyph.shapes[j].id \notin SeqToSet(selectedShapeIds)
                          => /\ glyph.shapes[j].id \notin SeqToSet(selectedShapeIds')
                             /\ glyph.shapes[j].id \notin DOMAIN shapeStartPositions']_vars

\* a plain click at a point inside both stacked squares, the large one drawn
\* last: the large one alone is selected and dragged
C36_UpperOfTwo ==
    /\ call.fn = "handleMouseDown" /\ ~call.isModifierPressed
    /\ op = "mouseDown" /\ stepsLeft = MaxClickSteps - 1
    /\ pointer = P(80, 80)
    /\ Len(font["A"].shapes) = 2
    /\ font["A"].shapes[1].id = 1 /\ font["A"].shapes[2].id = 2
    /\ isPointInShape(pointer.x, pointer.y, font["A"].shapes[1])
    /\ isPointInShape(pointer.x, pointer.y, font["A"].shapes[2])
    /\ selectedShapeIds = <<2>>
    /\ isDragging /\ DOMAIN shapeStartPositions = {2}

\* C37: a resize begins only with a pointer-down on a resize handle while
\* exactly one shape is selected, with that shape kept as the snapshot; and
\* every update a pointer-move of the resize records is an update of the
\* shape of the snapshot, whatever the selection has become meanwhile.
C37_ResizeKeepsItsShape ==
    [][/\ (isResizing' /\ ~isResizing)
          => /\ op' = "mouseDown"
             /\ Len(selectedShapeIds) = 1
             /\ HandleTarget(pointer') # "null"
             /\ resizeStartShape' = Some(FindShape(glyph.shapes, selectedShapeIds[1]))
       /\ (op' = "mouseMove" /\ isResizing /\ ~isDragging /\ resizeStartShape # None)
          => \A id \in DOMAIN pendingShapeUpdates'[currentGlyph] :
                 \/ id = resizeStartShape[1].id
                 \/ /\ id \in DOMAIN pendingShapeUpdates[currentGlyph]
                    /\ pendingShapeUpdates'[currentGlyph][id] = pendingShapeUpdates[currentGlyph][id]]_vars

\* C38: whatever operations have run, every id in the selection is the id of
\* a shape in the shape array of the current glyph.
C38_SelectionWithinGlyph ==
    SeqToSet(selectedShapeIds) \subseteq ShapeIds(glyph.shapes)

\* C39: whenever an update is pending for some glyph a frame callback is
\* scheduled; and, the scheduled frame callbacks being run, a state with
\* updates pending is always followed by one where none is pending: each has
\* been merged into the store or discarded.
C39_PendingIsFlushed ==
    /\ []((\E g \in Glyphs : DOMAIN pendingShapeUpdates[g] # {}) => pendingFrame)
    /\ (\E g \in Glyphs : DOMAIN pendingShapeUpdates[g] # {})
          ~> (\A g \in Glyphs : DOMAIN pendingShapeUpdates[g] = {})

\* an update of the square's x was the last call, and the frame callback that
\* followed merged it and left nothing pending
C39_MergedByFrame ==
    /\ op = "frame" /\ call.fn = "updateShape" /\ call.given = <<1>>
    /\ Len(font["A"].shapes) = 2 /\ font["A"].shapes[1].x = Q(96)
    /\ \A g \in Glyphs : DOMAIN pendingShapeUpdates[g] = {}
    /\ ~pendingFrame

\* C40: a resize leaves the corner opposite the active handle where it was:
\* from NW the right and the bottom edge keep their coordinates, from NE the
\* left and the bottom edge, from SW the right and the top edge, from SE the
\* left and the top edge, whatever the displacement of the pointer.
C40_OppositeCornerFixed ==
    (call.fn = "resize" /\ op = "resize")
        => LET start == call.given[1]
               out == call.out
               left == out.x = start.x
               top == out.y = start.y
               right == Add(out.x, out.width) = Add(start.x, start.width)
               bottom == Add(out.y, out.height) = Add(start.y, start.height)
           IN CASE call.handle = "resize-nw" -> right /\ bottom
                [] call.handle = "resize-ne" -> left /\ bottom
                [] call.handle = "resize-sw" -> right /\ top
                [] call.handle = "resize-se" -> left /\ top

=============================================================================
